---- MODULE Spec2Model ----
(***************************************************************************)
(* Stage-based pipeline orchestrator with DAG dependency resolution        *)
(* (backend/pipeline/core/orchestrator.py).                                *)
(*                                                                         *)
(* One call of orchestrator(pipeline_config, out_dir) is modelled as a     *)
(* sequential process whose position is pc.  The pipeline configuration is *)
(* the input: it is drawn in Init from a bounded family of well-typed      *)
(* configurations (stages is a list of names, jobs a mapping, depends_on a *)
(* list of names, execution a mapping).                                    *)
(***************************************************************************)
EXTENDS Integers, Sequences, FiniteSets, TLC

(***************************************************************************)
(* Bounds of the configuration family                                      *)
(***************************************************************************)
\* largest number of depends_on entries in the whole jobs section
MaxEdges == 2
\* largest length of the stages list
MaxStages == 2
\* largest number of depends_on entries of a job graph handed to the sort
MaxSortEdges == 3
\* largest number of tables a reader yields for one extract job
MaxTables == 2
\* largest length of a string handed to _expand
MaxStringLen == 4
\* largest number of placeholders and literals in a pipeline variable
MaxTokens == 1
\* largest number of resolutions of one configuration
MaxResolutions == 2

\* jobs section in declaration order (dict order of jobs_config)
JobOrder == <<"a", "b", "c">>
JobNames == {JobOrder[i] : i \in 1..Len(JobOrder)}
\* a name that is no key of the jobs section
Ghost == "ghost"
DepNames == JobNames \cup {Ghost}
\* free-text stage names used by the family
StageNames == {"Extract", "misc"}
\* values of execution.on_error; "absent" is a configuration without the key
OnErrorValues == {"stop", "continue", "skip", "absent"}
\* values of the type field of the runner shared by the jobs ("" = no type)
RunnerTypes == {"", "reader"}
\* values of the runner key of a transform job ("" = no runner key)
RunnerNames == {"", "sql_transform", "dbt_runner"}
\* what processor.process does with a table: return a frame, raise
\* SkipTable, raise another exception
ProcessorOutcomes == {"ok", "skip", "error"}
\* values of output.table of an extract job ("" = no output table)
OutputNames == {"", "T1", "T2"}
\* keys of the in-memory table cache
CacheKeys == OutputNames \ {""}
\* value of a cache key that is not in the dict
NoTable == [file |-> <<>>, outcomes |-> <<>>]

VARIABLES
    config,          \* the expanded pipeline configuration
    pc,              \* position of orchestrator()
    status,          \* Job.status of every Job object
    job_error,       \* Job.error of every Job object
    completed_jobs,  \* the set completed_jobs
    stage_idx,       \* index of the for-loop over stages_list
    ready_jobs,      \* list returned by the last get_ready_jobs call
    ready_idx,       \* index of the for-loop over ready_jobs
    duckdb_con,      \* local duckdb_con of orchestrator(): 0 is None
    executor_con,    \* JobExecutor.duckdb_con: 0 is None
    con_closes,      \* per connection handle, the close() calls made on it
    close_log,       \* handles passed to db_engine.close, in call order
    source,          \* per job, the tables its reader yields
    in_memory_tables,\* JobExecutor.in_memory_tables
    exc,             \* exception propagating out of orchestrator()
    exec_log,        \* history: executor entries <<job, stage index>>
    completed_log,   \* history: completed_jobs.add calls <<job, stage index>>
    summary,         \* the counts passed to log.pipeline_summary
    report,          \* generate_pipeline_report: none, generated or failed
    end_time,        \* per job, whether Job.end_time and duration are set
    method,          \* per job, the executor method its dispatch chose
    proc_log,        \* history: process() calls <<job, table, processor>>
    sql_log,         \* history: statements executed <<job, handle, source, n>>
    registered,      \* history: the register_tables calls
    ctx,             \* the context the last transform runner returned with
    files,           \* the SQL files on disk, by name
    sort_call,       \* last call of topological_sort_within_stage
    expand_call,     \* a call _expand(obj, env) on a string: arguments, result
    os_environ,      \* os.environ
    raw_config,      \* pipeline_config as loaded
    env,             \* the dict env of orchestrator()
    resolved,        \* the expanded configuration (config = _expand(...))
    resolve_step,    \* position in the resolution: 0, variable index, after
    resolutions      \* history: the expanded configurations, in call order

vars == <<config, pc, status, job_error, completed_jobs, stage_idx,
          ready_jobs, ready_idx, duckdb_con, executor_con, con_closes,
          close_log, source, in_memory_tables, exc, exec_log, completed_log,
          summary, report, end_time, method, proc_log, sql_log, registered,
          ctx, files, sort_call, expand_call, os_environ, raw_config, env,
          resolved, resolve_step, resolutions>>

\* the variables of the variable resolution
resolve_vars == <<expand_call, os_environ, raw_config, env, resolved,
                  resolve_step, resolutions>>

\* the variables of what happens outside the stage loop of orchestrator()
call_vars == <<sort_call, resolve_vars>>

\* the variables of what the stage and transform methods do in detail
method_vars == <<sql_log, registered, ctx, files>>

\* no call made yet
NoCall == [stage |-> "", raised |-> FALSE, result |-> <<>>]

Range(s) == {s[i] : i \in 1..Len(s)}

NoExc == [kind |-> "none", job |-> ""]

\* log.pipeline_summary was not called
NoSummary == [reported |-> FALSE, success |-> 0, failed |-> 0, skipped |-> 0]

(***************************************************************************)
(* Stage-name heuristic: substring tests on stage.lower()                  *)
(***************************************************************************)
\* the characters of each stage name of the family
Chars ==
    [Extract   |-> <<"E", "x", "t", "r", "a", "c", "t">>,
     misc      |-> <<"m", "i", "s", "c">>,
     Staging   |-> <<"S", "t", "a", "g", "i", "n", "g">>,
     transform |-> <<"t", "r", "a", "n", "s", "f", "o", "r", "m">>,
     load      |-> <<"l", "o", "a", "d">>,
     Export    |-> <<"E", "x", "p", "o", "r", "t">>]

\* str.lower() on one character
LowerChar(c) == IF c = "E" THEN "e" ELSE IF c = "S" THEN "s" ELSE c

Lower(cs) == [i \in 1..Len(cs) |-> LowerChar(cs[i])]

\* the Python test `sub in s` on character sequences
Contains(s, sub) ==
    \E i \in 0..(Len(s) - Len(sub)) :
        \A k \in 1..Len(sub) : s[i + k] = sub[k]

W_extract == <<"e", "x", "t", "r", "a", "c", "t">>
W_stage == <<"s", "t", "a", "g", "e">>
W_stag == <<"s", "t", "a", "g">>
W_transform == <<"t", "r", "a", "n", "s", "f", "o", "r", "m">>
W_load == <<"l", "o", "a", "d">>
W_export == <<"e", "x", "p", "o", "r", "t">>

\* routing of a ready job to an executor method; "unresolved" is the
\* ValueError "Cannot determine job type"
ResolveJobType(runner_type, stage) ==
    IF runner_type = "reader" THEN "extract"
    ELSE IF runner_type = "stager" THEN "stage"
    ELSE IF runner_type = "transformer" THEN "transform"
    ELSE IF runner_type = "writer" THEN "load"
    ELSE LET stage_lower == Lower(Chars[stage]) IN
         IF Contains(stage_lower, W_extract) THEN "extract"
         ELSE IF Contains(stage_lower, W_stage) \/ Contains(stage_lower, W_stag)
              THEN "stage"
         ELSE IF Contains(stage_lower, W_transform) THEN "transform"
         ELSE IF Contains(stage_lower, W_load) \/ Contains(stage_lower, W_export)
              THEN "load"
         ELSE "unresolved"

(***************************************************************************)
(* Variable expansion: strings are sequences of characters                 *)
(***************************************************************************)
\* the characters of the strings of the family
StringChars == {"$", "{", "}", "A", "B"}

\* the character class [A-Za-z0-9_], over the characters in use
NameChars == {"A", "B", "C", "x"}

\* strings of up to n characters
StringsUpTo(n) == UNION {[1..m -> StringChars] : m \in 0..n}

\* str(env.get(name, ""))
EnvGet(e, name) == IF name \in DOMAIN e THEN e[name] ELSE <<>>

\* index of the first "}" at or after position i, 0 when there is none
RECURSIVE FirstClose(_, _)
FirstClose(s, i) ==
    IF i > Len(s) THEN 0
    ELSE IF s[i] = "}" THEN i
    ELSE FirstClose(s, i + 1)

\* _DOLLAR.sub over s from position i: a match is "${", one or more
\* characters other than "}", and "}"; matches are taken left to right
\* and the substituted text is not scanned again
RECURSIVE SubDollar(_, _, _)
SubDollar(s, i, e) ==
    IF i > Len(s) THEN <<>>
    ELSE LET j == FirstClose(s, i + 2)
         IN IF /\ i + 1 <= Len(s)
               /\ s[i] = "$"
               /\ s[i + 1] = "{"
               /\ j >= i + 3
            THEN EnvGet(e, SubSeq(s, i + 2, j - 1)) \o SubDollar(s, j + 1, e)
            ELSE <<s[i]>> \o SubDollar(s, i + 1, e)

\* first position at or after i that holds no name character
RECURSIVE NameEnd(_, _)
NameEnd(s, i) ==
    IF i > Len(s) THEN i
    ELSE IF s[i] \notin NameChars THEN i
    ELSE NameEnd(s, i + 1)

\* _BRACES.sub over s from position i: a match is "{", one or more name
\* characters, and "}"
RECURSIVE SubBraces(_, _, _)
SubBraces(s, i, e) ==
    IF i > Len(s) THEN <<>>
    ELSE LET j == NameEnd(s, i + 1)
         IN IF /\ s[i] = "{"
               /\ j > i + 1
               /\ j <= Len(s)
               /\ s[j] = "}"
            THEN EnvGet(e, SubSeq(s, i + 1, j - 1)) \o SubBraces(s, j + 1, e)
            ELSE <<s[i]>> \o SubBraces(s, i + 1, e)

\* _expand on a string: the ${...} pass, then the {...} pass over its
\* result
ExpandStr(s, e) == SubBraces(SubDollar(s, 1, e), 1, e)

\* _expand on a list of strings: a new list
ExpandList(l, e) == [i \in 1..Len(l) |-> ExpandStr(l[i], e)]

\* _expand on a mapping with string values, kept as the sequence of its
\* items: a new dict with the same keys in the same order
ExpandMapping(m, e) ==
    [i \in 1..Len(m) |-> <<m[i][1], ExpandStr(m[i][2], e)>>]

\* _expand on the pipeline configuration: a mapping holding the variables
\* section and a list of string settings
Expand(cfg, e) ==
    [variables |-> ExpandMapping(cfg.variables, e),
     settings |-> ExpandList(cfg.settings, e)]

(***************************************************************************)
(* JobDAG                                                                  *)
(***************************************************************************)
\* faulty variant: only the first job's depends_on is checked
BuildGraphRaises_first_only(jobs, depends_on, i) ==
    /\ i <= Len(jobs)
    /\ \E dep \in depends_on[jobs[i]] : dep \notin Range(jobs)

\* JobDAG._build_graph: TRUE when the construction raises ValueError
\* ("depends on unknown job"); jobs is the list of Job objects' names
RECURSIVE BuildGraphRaises(_, _, _)
BuildGraphRaises(jobs, depends_on, i) ==
    IF i > Len(jobs) THEN FALSE
    ELSE IF \E dep \in depends_on[jobs[i]] : dep \notin Range(jobs) THEN TRUE
    ELSE BuildGraphRaises(jobs, depends_on, i + 1)

\* JobDAG.get_ready_jobs: the loop over self.jobs.values(), from position i
RECURSIVE ReadyFrom(_, _, _)
ReadyFrom(stage, completed, i) ==
    IF i > Len(config.jobs) THEN <<>>
    ELSE LET job == config.jobs[i]
             rest == ReadyFrom(stage, completed, i + 1)
         IN IF config.stage[job] # stage THEN rest
            ELSE IF status[job] # "pending" THEN rest
            ELSE IF \A dep \in config.depends_on[job] : dep \in completed
                 THEN <<job>> \o rest
            ELSE rest

\* faulty variants of get_ready_jobs: bug names the check that is wrong
RECURSIVE ReadyVariant(_, _, _, _)
ReadyVariant(stage, completed, i, bug) ==
    IF i > Len(config.jobs) THEN <<>>
    ELSE LET job == config.jobs[i]
             rest == ReadyVariant(stage, completed, i + 1, bug)
             deps_ready ==
                 IF bug = "no_deps" THEN TRUE
                 ELSE IF bug = "any_dep"
                 THEN \E dep \in config.depends_on[job] : dep \in completed
                 ELSE IF bug = "success_deps"
                 THEN \A dep \in config.depends_on[job] :
                          /\ dep \in completed
                          /\ status[dep] = "success"
                 ELSE IF bug = "same_stage_deps"
                 THEN \A dep \in config.depends_on[job] :
                          (dep \in Range(config.jobs)
                             /\ config.stage[dep] = stage) => dep \in completed
                 ELSE \A dep \in config.depends_on[job] : dep \in completed
         IN IF bug # "no_stage" /\ config.stage[job] # stage THEN rest
            ELSE IF bug # "no_status" /\ status[job] # "pending" THEN rest
            ELSE IF deps_ready THEN <<job>> \o rest
            ELSE rest

get_ready_jobs_no_deps(stage, completed) ==
    ReadyVariant(stage, completed, 1, "no_deps")

get_ready_jobs_any_dep(stage, completed) ==
    ReadyVariant(stage, completed, 1, "any_dep")

get_ready_jobs_no_status(stage, completed) ==
    ReadyVariant(stage, completed, 1, "no_status")

get_ready_jobs_no_stage(stage, completed) ==
    ReadyVariant(stage, completed, 1, "no_stage")

get_ready_jobs_same_stage_deps(stage, completed) ==
    ReadyVariant(stage, completed, 1, "same_stage_deps")

get_ready_jobs_success_deps(stage, completed) ==
    ReadyVariant(stage, completed, 1, "success_deps")

get_ready_jobs(stage, completed) == ReadyFrom(stage, completed, 1)

\* stage_jobs: the names of the jobs of a stage, in the order of self.jobs
StageJobsOf(cfg, stage) ==
    LET InStage(j) == cfg.stage[j] = stage
    IN SelectSeq(cfg.jobs, InStage)

\* stage_graph[dep]: the jobs of the stage naming dep in depends_on, in the
\* order of stage_jobs
StageGraphOf(cfg, stage_jobs, dep) ==
    LET DependsOnDep(j) == dep \in cfg.depends_on[j]
    IN SelectSeq(stage_jobs, DependsOnDep)

\* the for-loop over stage_graph[node], from position i
RECURSIVE Relax(_, _, _, _)
Relax(neighbors, i, in_degree, queue) ==
    IF i > Len(neighbors)
    THEN [in_degree |-> in_degree, queue |-> queue]
    ELSE LET neighbor == neighbors[i]
             deg == [in_degree EXCEPT ![neighbor] = @ - 1]
         IN Relax(neighbors, i + 1, deg,
                  IF deg[neighbor] = 0 THEN Append(queue, neighbor)
                  ELSE queue)

\* the while-loop of Kahn's algorithm
RECURSIVE Kahn(_, _, _, _)
Kahn(queue, result, in_degree, stage_graph) ==
    IF queue = <<>> THEN result
    ELSE LET node == Head(queue)
             r == Relax(stage_graph[node], 1, in_degree, Tail(queue))
         IN Kahn(r.queue, Append(result, node), r.in_degree, stage_graph)

\* variants of topological_sort_within_stage: bug names what is wrong
\* ("no_check": the length test is missing; "all_deps": every dependency
\* counts in in_degree, not only those on jobs of the stage)
TopologicalSortVariant(cfg, stage, bug) ==
    LET stage_jobs == StageJobsOf(cfg, stage)
        names == Range(stage_jobs)
        in_degree ==
            [j \in names |->
                IF bug = "all_deps" THEN Cardinality(cfg.depends_on[j])
                ELSE Cardinality(cfg.depends_on[j] \cap names)]
        stage_graph == [dep \in names |-> StageGraphOf(cfg, stage_jobs, dep)]
        InDegreeZero(j) == in_degree[j] = 0
        result == Kahn(SelectSeq(stage_jobs, InDegreeZero), <<>>, in_degree,
                       stage_graph)
    IN IF bug # "no_check" /\ Len(result) # Len(stage_jobs)
       THEN [stage |-> stage, raised |-> TRUE, result |-> <<>>]
       ELSE [stage |-> stage, raised |-> FALSE, result |-> result]

topological_sort_within_stage_no_check(cfg, stage) ==
    TopologicalSortVariant(cfg, stage, "no_check")

topological_sort_within_stage_all_deps(cfg, stage) ==
    TopologicalSortVariant(cfg, stage, "all_deps")

\* JobDAG.topological_sort_within_stage: the list it returns, or raised
\* for ValueError "Circular dependency detected"
topological_sort_within_stage(cfg, stage) ==
    LET stage_jobs == StageJobsOf(cfg, stage)
        names == Range(stage_jobs)
        in_degree ==
            [j \in names |-> Cardinality(cfg.depends_on[j] \cap names)]
        stage_graph == [dep \in names |-> StageGraphOf(cfg, stage_jobs, dep)]
        InDegreeZero(j) == in_degree[j] = 0
        result == Kahn(SelectSeq(stage_jobs, InDegreeZero), <<>>, in_degree,
                       stage_graph)
    IN IF Len(result) # Len(stage_jobs)
       THEN [stage |-> stage, raised |-> TRUE, result |-> <<>>]
       ELSE [stage |-> stage, raised |-> FALSE, result |-> result]

(***************************************************************************)
(* Error policy of the per-job except handler                              *)
(***************************************************************************)
\* faulty variant: a missing on_error defaults to continue
OnError_default_continue(cfg) ==
    IF cfg.on_error = "absent" THEN "continue" ELSE cfg.on_error

\* execution_policy.get("on_error", "stop")
OnError(cfg) == IF cfg.on_error = "absent" THEN "stop" ELSE cfg.on_error

\* faulty variant: skip swallows the exception as continue does
HandlerDecision_skip_swallows(on_error) ==
    IF on_error = "stop" THEN "raise" ELSE "continue"

\* what the handler does with the exception: "raise" or "continue"
HandlerDecision(on_error) ==
    IF on_error = "stop" THEN "raise"
    ELSE IF on_error = "continue" THEN "continue"
    ELSE "raise"

(***************************************************************************)
(* Configurations                                                          *)
(***************************************************************************)
\* depends_on lists of the whole jobs section, as sets of <<job, dep>>
EdgeUniverse == JobNames \X DepNames

EdgeSets == {E \in SUBSET EdgeUniverse : Cardinality(E) <= MaxEdges}

\* every dependency names a job / some dependency names no job
KnownEdgeSets == {E \in EdgeSets : \A e \in E : e[2] # Ghost}
UnknownEdgeSets == EdgeSets \ KnownEdgeSets

StageLists == UNION {[1..n -> StageNames] : n \in 0..MaxStages}

Cfg(st, E, rt, sl, oe, wh) ==
    [jobs |-> JobOrder,
     stage |-> st,
     depends_on |-> [j \in JobNames |-> {d \in DepNames : <<j, d>> \in E}],
     runner_type |-> rt,
     runner |-> [j \in JobNames |-> ""],
     processors |-> <<>>,
     output |-> [j \in JobNames |-> ""],
     stages |-> sl,
     on_error |-> oe,
     warehouse |-> wh,
     reporting |-> FALSE]

\* every job graph over known names, stage list, policy and runner type,
\* with a warehouse database
SchedulingConfig(c) ==
    \E st \in [JobNames -> StageNames], E \in KnownEdgeSets,
       rt \in RunnerTypes, sl \in StageLists, oe \in OnErrorValues :
        c = Cfg(st, E, rt, sl, oe, TRUE)

\* a dependency on an unknown name, with and without a warehouse database
UnknownDepConfig(c) ==
    \E st \in [JobNames -> StageNames], E \in UnknownEdgeSets,
       oe \in OnErrorValues, wh \in BOOLEAN :
        c = Cfg(st, E, "reader", <<"Extract", "misc">>, oe, wh)

\* independent jobs without a warehouse database
NoWarehouseConfig(c) ==
    \E st \in [JobNames -> StageNames], rt \in RunnerTypes,
       sl \in StageLists, oe \in OnErrorValues :
        c = Cfg(st, {}, rt, sl, oe, FALSE)

\* a jobs section that is empty or missing
EmptyConfig(c) ==
    \E rt \in RunnerTypes, sl \in StageLists, oe \in OnErrorValues,
       wh \in BOOLEAN :
        c = [jobs |-> <<>>,
             stage |-> <<>>,
             depends_on |-> <<>>,
             runner_type |-> rt,
             runner |-> <<>>,
             processors |-> <<>>,
             output |-> <<>>,
             stages |-> sl,
             on_error |-> oe,
             warehouse |-> wh,
             reporting |-> FALSE]

\* no transform runner has been called
NoContext == [called |-> FALSE, duckdb |-> 0]

\* no SQL file on disk
NoFiles == <<>>

\* the state in which orchestrator() is entered, whatever the readers yield
Started ==
    /\ pc = "open"
    /\ status = [j \in Range(config.jobs) |-> "pending"]
    /\ job_error = [j \in Range(config.jobs) |-> "none"]
    /\ completed_jobs = {}
    /\ stage_idx = 0
    /\ ready_jobs = <<>>
    /\ ready_idx = 0
    /\ duckdb_con = 0
    /\ executor_con = 0
    /\ con_closes = <<>>
    /\ close_log = <<>>
    /\ exc = NoExc
    /\ exec_log = <<>>
    /\ completed_log = <<>>
    /\ sort_call = NoCall
    /\ in_memory_tables = [n \in CacheKeys |-> NoTable]
    /\ summary = NoSummary
    /\ report = "none"
    /\ end_time = [j \in Range(config.jobs) |-> FALSE]
    /\ method = [j \in Range(config.jobs) |-> ""]
    /\ proc_log = <<>>
    /\ sql_log = <<>>
    /\ registered = <<>>
    /\ ctx = NoContext
    /\ files = NoFiles

\* no call of _expand
NoExpand == [obj |-> <<>>, env |-> <<>>, result |-> <<>>, called |-> FALSE]

\* a configuration without variables and settings
NoSettings == [variables |-> <<>>, settings |-> <<>>]

\* no variable resolution is looked at
Unresolved ==
    /\ expand_call = NoExpand
    /\ os_environ = <<>>
    /\ raw_config = NoSettings
    /\ env = <<>>
    /\ resolved = NoSettings
    /\ resolve_step = 0
    /\ resolutions = <<>>

\* a reader that yields the tables whose processor outcomes are rows
SourceOf(j, rows) ==
    [i \in 1..Len(rows) |-> [file |-> <<j, i>>, outcomes |-> rows[i]]]

\* the state in which orchestrator() is entered, every reader yielding one
\* table
Entry ==
    /\ source = [j \in Range(config.jobs) |-> SourceOf(j, <<<<>>>>)]
    /\ Started
    /\ Unresolved

Init ==
    /\ \/ SchedulingConfig(config)
       \/ UnknownDepConfig(config)
       \/ NoWarehouseConfig(config)
       \/ EmptyConfig(config)
    /\ Entry

(***************************************************************************)
(* orchestrator()                                                          *)
(***************************************************************************)
\* the job the for-loop over ready_jobs is at
CurrentJob == ready_jobs[ready_idx]

\* the stage the for-loop over stages_list is at
CurrentStage == config.stages[stage_idx]

\* the executor method the current job is routed to
CurrentType ==
    ResolveJobType(config.runner_type, CurrentStage)

\* Open the warehouse database through the engine plugin.  connect() either
\* returns a connection handle or raises; it runs before the try block.
OpenDatabase ==
    /\ pc = "open"
    /\ IF config.warehouse
       THEN \E connected \in BOOLEAN :
                IF connected
                THEN /\ duckdb_con' = Len(con_closes) + 1
                     /\ con_closes' = Append(con_closes, 0)
                     /\ pc' = "parse"
                     /\ exc' = exc
                ELSE /\ duckdb_con' = duckdb_con
                     /\ pc' = "done"
                     /\ exc' = [kind |-> "ConnectError", job |-> ""]
                     /\ UNCHANGED con_closes
       ELSE /\ pc' = "parse"
            /\ UNCHANGED <<duckdb_con, con_closes, exc>>
    /\ UNCHANGED <<config, status, job_error, completed_jobs, stage_idx,
                   ready_jobs, ready_idx, executor_con, close_log, exec_log,
                   completed_log>>
    /\ UNCHANGED <<source, in_memory_tables, summary, report, end_time,
                   method>>
    /\ UNCHANGED <<call_vars, method_vars, proc_log>>

\* Parse the jobs section, create the Job objects, build the JobDAG and
\* create the JobExecutor, which receives the connection.
BuildJobs ==
    /\ pc = "parse"
    /\ IF config.jobs = <<>>
       THEN \* "No jobs defined in pipeline": return
            /\ pc' = "finally"
            /\ UNCHANGED <<exc, stage_idx, executor_con>>
       ELSE IF BuildGraphRaises(config.jobs, config.depends_on, 1)
       THEN /\ pc' = "finally"
            /\ exc' = [kind |-> "UnknownDependency", job |-> ""]
            /\ UNCHANGED <<stage_idx, executor_con>>
       ELSE /\ pc' = "stage"
            /\ stage_idx' = 1
            /\ executor_con' = duckdb_con
            /\ UNCHANGED exc
    /\ UNCHANGED <<config, status, job_error, completed_jobs, ready_jobs,
                   ready_idx, duckdb_con, con_closes, close_log, exec_log,
                   completed_log>>
    /\ UNCHANGED <<source, in_memory_tables, summary, report, end_time,
                   method>>
    /\ UNCHANGED <<call_vars, method_vars, proc_log>>

\* Head of the for-loop over stages_list and of the while-loop of a stage:
\* take the next stage, or query get_ready_jobs for the current one.
NextReady ==
    /\ pc = "stage"
    /\ IF stage_idx > Len(config.stages)
       THEN /\ pc' = "summary"
            /\ UNCHANGED <<stage_idx, ready_jobs, ready_idx>>
       ELSE LET stage_jobs == {j \in Range(config.jobs) :
                                   config.stage[j] = CurrentStage}
                ready == get_ready_jobs(CurrentStage, completed_jobs)
            IN IF stage_jobs = {}
               THEN \* "No jobs in stage": continue
                    /\ stage_idx' = stage_idx + 1
                    /\ UNCHANGED <<pc, ready_jobs, ready_idx>>
               ELSE IF ready = <<>>
               THEN \* break
                    /\ stage_idx' = stage_idx + 1
                    /\ ready_jobs' = ready
                    /\ UNCHANGED <<pc, ready_idx>>
               ELSE /\ ready_jobs' = ready
                    /\ ready_idx' = 1
                    /\ pc' = "dispatch"
                    /\ UNCHANGED stage_idx
    /\ UNCHANGED <<config, status, job_error, completed_jobs, duckdb_con,
                   executor_con, con_closes, close_log, exc, exec_log,
                   completed_log>>
    /\ UNCHANGED <<source, in_memory_tables, summary, report, end_time,
                   method>>
    /\ UNCHANGED <<call_vars, method_vars, proc_log>>

\* faulty variant: the for-loop over ready_jobs jumps to the last job
Advance_to_last ==
    IF ready_idx < Len(ready_jobs)
    THEN /\ ready_idx' = Len(ready_jobs)
         /\ pc' = "dispatch"
    ELSE /\ ready_idx' = 0
         /\ pc' = "stage"

\* Next iteration of the for-loop over ready_jobs, or back to the while head.
Advance ==
    IF ready_idx < Len(ready_jobs)
    THEN /\ ready_idx' = ready_idx + 1
         /\ pc' = "dispatch"
    ELSE /\ ready_idx' = 0
         /\ pc' = "stage"

\* faulty variant of the except clause: under continue the job is left
\* pending and is not added to completed_jobs
ExceptHandler_left_pending(on_error, job, e, st) ==
    IF HandlerDecision(on_error) = "continue"
    THEN /\ status' = [st EXCEPT ![job] = "pending"]
         /\ Advance
         /\ UNCHANGED <<exc, completed_jobs, completed_log>>
    ELSE /\ status' = st
         /\ exc' = e
         /\ pc' = "finally"
         /\ UNCHANGED <<completed_jobs, completed_log, ready_idx>>

\* faulty variant of the except clause: the job is added to completed_jobs
\* before the exception is raised again
ExceptHandler_completed_on_raise(on_error, job, e, st) ==
    IF HandlerDecision(on_error) = "continue"
    THEN /\ status' = [st EXCEPT ![job] = "failed"]
         /\ completed_jobs' = completed_jobs \cup {job}
         /\ completed_log' = Append(completed_log, <<job, stage_idx>>)
         /\ Advance
         /\ UNCHANGED exc
    ELSE /\ status' = st
         /\ exc' = e
         /\ pc' = "finally"
         /\ completed_jobs' = completed_jobs \cup {job}
         /\ completed_log' = Append(completed_log, <<job, stage_idx>>)
         /\ UNCHANGED ready_idx

\* faulty variant of the except clause: under continue the job is added
\* to completed_jobs but its status is left as the try body left it
ExceptHandler_status_kept(on_error, job, e, st) ==
    IF HandlerDecision(on_error) = "continue"
    THEN /\ status' = st
         /\ completed_jobs' = completed_jobs \cup {job}
         /\ completed_log' = Append(completed_log, <<job, stage_idx>>)
         /\ Advance
         /\ UNCHANGED exc
    ELSE /\ status' = st
         /\ exc' = e
         /\ pc' = "finally"
         /\ UNCHANGED <<completed_jobs, completed_log, ready_idx>>

\* faulty variant of the except clause: under continue the failed job is
\* not added to completed_jobs
ExceptHandler_not_completed(on_error, job, e, st) ==
    IF HandlerDecision(on_error) = "continue"
    THEN /\ status' = [st EXCEPT ![job] = "failed"]
         /\ Advance
         /\ UNCHANGED <<exc, completed_jobs, completed_log>>
    ELSE /\ status' = st
         /\ exc' = e
         /\ pc' = "finally"
         /\ UNCHANGED <<completed_jobs, completed_log, ready_idx>>

\* The except clause around one job: on_error is the policy it reads from
\* the configuration, e the exception, st the job statuses the try body
\* left behind.
ExceptHandler(on_error, job, e, st) ==
    IF HandlerDecision(on_error) = "continue"
    THEN /\ status' = [st EXCEPT ![job] = "failed"]
         /\ completed_jobs' = completed_jobs \cup {job}
         /\ completed_log' = Append(completed_log, <<job, stage_idx>>)
         /\ Advance
         /\ UNCHANGED exc
    ELSE /\ status' = st
         /\ exc' = e
         /\ pc' = "finally"
         /\ UNCHANGED <<completed_jobs, completed_log, ready_idx>>

\* Route the current ready job: enter its executor method (status running)
\* or raise "Cannot determine job type" into the except clause, which reads
\* the policy on_error.  method records the branch of the routing taken.
DispatchJobUnder(on_error) ==
    /\ pc = "dispatch"
    /\ IF CurrentType = "unresolved"
       THEN /\ ExceptHandler(on_error, CurrentJob,
                             [kind |-> "ValueError", job |-> CurrentJob],
                             status)
            /\ UNCHANGED exec_log
       ELSE /\ status' = [status EXCEPT ![CurrentJob] = "running"]
            /\ exec_log' = Append(exec_log, <<CurrentJob, stage_idx>>)
            /\ pc' = "exec"
            /\ UNCHANGED <<completed_jobs, completed_log, ready_idx, exc>>
    /\ method' = [method EXCEPT ![CurrentJob] = CurrentType]
    /\ UNCHANGED <<config, job_error, stage_idx, ready_jobs, duckdb_con,
                   executor_con, con_closes, close_log>>
    /\ UNCHANGED <<source, in_memory_tables, summary, report, end_time>>
    /\ UNCHANGED <<call_vars, method_vars, proc_log>>


\* the dispatch of the current ready job under the configured policy
DispatchJob == DispatchJobUnder(OnError(config))
\* transform and load jobs raise when the executor holds no connection
ExecutorCanSucceed(type, con) ==
    ~(type \in {"transform", "load"} /\ con = 0)

\* execute_transform_job hands the job to a runner plugin, and the runner
\* is the one that closes and reopens the connection it is given
ClosesAndReopens(type, con, runner) ==
    /\ type = "transform"
    /\ con # 0
    /\ runner # ""
    /\ runner # "sql_transform"
    /\ runner = "dbt_runner"

\* the registry PROCESSORS: the names that have a processor class
PROCESSORS == {"p1", "p2"}

\* faulty variant: a SkipTable is passed over and the next processor runs
RECURSIVE ApplyProcessors_skip_continues(_, _, _)
ApplyProcessors_skip_continues(table, processors, i) ==
    IF i > Len(processors) THEN [result |-> "kept", calls |-> <<>>]
    ELSE IF processors[i] = ""
    THEN ApplyProcessors_skip_continues(table, processors, i + 1)
    ELSE IF processors[i] \notin PROCESSORS
    THEN [result |-> "raised", calls |-> <<>>]
    ELSE IF table.outcomes[i] = "error"
    THEN [result |-> "raised", calls |-> <<i>>]
    ELSE LET rest == ApplyProcessors_skip_continues(table, processors,
                                                    i + 1)
         IN [rest EXCEPT !.calls = <<i>> \o @]

\* JobExecutor._apply_processors on one table, from processor i: the table
\* is kept, skipped (SkipTable: None is returned) or the call raises; calls
\* are the positions whose process() was called.  An entry without a name
\* is passed over, a name that is not in the registry raises.
RECURSIVE ApplyProcessors(_, _, _)
ApplyProcessors(table, processors, i) ==
    IF i > Len(processors) THEN [result |-> "kept", calls |-> <<>>]
    ELSE IF processors[i] = ""
    THEN ApplyProcessors(table, processors, i + 1)
    ELSE IF processors[i] \notin PROCESSORS
    THEN [result |-> "raised", calls |-> <<>>]
    ELSE IF table.outcomes[i] = "skip"
    THEN [result |-> "skipped", calls |-> <<i>>]
    ELSE IF table.outcomes[i] = "error"
    THEN [result |-> "raised", calls |-> <<i>>]
    ELSE LET rest == ApplyProcessors(table, processors, i + 1)
         IN [rest EXCEPT !.calls = <<i>> \o @]

\* the for-loop of execute_extract_job over the tables, from table i:
\* calls are the process() calls made, as <<table, processor>> positions
RECURSIVE ProcessTables(_, _, _, _)
ProcessTables(tables, processors, i, kept_tables) ==
    IF i > Len(tables)
    THEN [raised |-> FALSE, kept_tables |-> kept_tables, calls |-> <<>>]
    ELSE LET processed == ApplyProcessors(tables[i], processors, 1)
             made == [k \in 1..Len(processed.calls) |->
                         <<i, processed.calls[k]>>]
         IN IF processed.result = "raised"
            THEN [raised |-> TRUE, kept_tables |-> kept_tables,
                  calls |-> made]
            ELSE LET rest == ProcessTables(tables, processors, i + 1,
                                           IF processed.result = "kept"
                                           THEN Append(kept_tables,
                                                       tables[i])
                                           ELSE kept_tables)
                 IN [rest EXCEPT !.calls = made \o @]

\* faulty variant: the last kept table is stored
ExtractTables_store_last(tables, processors, output_table_name, cache) ==
    IF tables = <<>>
    THEN [raised |-> FALSE, cache |-> cache, timed |-> FALSE]
    ELSE LET r == ProcessTables(tables, processors, 1, <<>>)
         IN IF r.raised
            THEN [raised |-> TRUE, cache |-> cache, timed |-> TRUE]
            ELSE IF r.kept_tables = <<>>
            THEN [raised |-> FALSE, cache |-> cache, timed |-> FALSE]
            ELSE IF output_table_name # ""
            THEN [raised |-> FALSE,
                  cache |-> [cache EXCEPT
                                ![output_table_name] =
                                    r.kept_tables[Len(r.kept_tables)]],
                  timed |-> TRUE]
            ELSE [raised |-> FALSE, cache |-> cache, timed |-> TRUE]

\* faulty variant: the first table the reader yielded is stored even when
\* no table was kept
ExtractTables_store_unkept(tables, processors, output_table_name, cache) ==
    IF tables = <<>> \/ output_table_name = ""
    THEN [raised |-> FALSE, cache |-> cache, timed |-> FALSE]
    ELSE LET r == ProcessTables(tables, processors, 1, <<>>)
         IN [raised |-> r.raised,
             cache |-> IF r.raised THEN cache
                       ELSE [cache EXCEPT ![output_table_name] = tables[1]],
             timed |-> TRUE]

\* the try body of execute_extract_job once the reader has returned its
\* tables: whether it raises, the table cache it leaves, and whether it
\* reaches the end of the body, where end_time and duration are set
ExtractTables(tables, processors, output_table_name, cache) ==
    IF tables = <<>>
    THEN \* "No files matched or all rows filtered"
         [raised |-> FALSE, cache |-> cache, timed |-> FALSE]
    ELSE LET r == ProcessTables(tables, processors, 1, <<>>)
         IN IF r.raised
            THEN [raised |-> TRUE, cache |-> cache, timed |-> TRUE]
            ELSE IF r.kept_tables = <<>>
            THEN \* "All rows filtered by processors"
                 [raised |-> FALSE, cache |-> cache, timed |-> FALSE]
            ELSE IF output_table_name # ""
            THEN [raised |-> FALSE,
                  cache |-> [cache EXCEPT
                                ![output_table_name] = r.kept_tables[1]],
                  timed |-> TRUE]
            ELSE [raised |-> FALSE, cache |-> cache, timed |-> TRUE]

\* faulty variant: the except clause re-raises without setting the status
ExecutorExcept_left_running(job, st, err, et) ==
    [status |-> st,
     job_error |-> [err EXCEPT ![job] = "error"],
     end_time |-> [et EXCEPT ![job] = TRUE],
     raised |-> TRUE]

\* faulty variant: the except clause records the failure and returns
ExecutorExcept_swallowed(job, st, err, et) ==
    [status |-> [st EXCEPT ![job] = "failed"],
     job_error |-> [err EXCEPT ![job] = "error"],
     end_time |-> [et EXCEPT ![job] = TRUE],
     raised |-> FALSE]

\* the except clause of an executor method: the fields of the Job objects
\* it leaves, and whether the exception is re-raised
ExecutorExcept(job, st, err, et) ==
    [status |-> [st EXCEPT ![job] = "failed"],
     job_error |-> [err EXCEPT ![job] = "error"],
     end_time |-> [et EXCEPT ![job] = TRUE],
     raised |-> TRUE]

\* whether a successful executor method reaches the end of its try body,
\* where end_time and duration are set: the early returns (no table read,
\* no table kept, no table to stage, a runner-based transform) do not
Timed(type, runner, extracted, staged) ==
    IF type = "extract" THEN extracted.timed
    ELSE IF type = "stage" THEN staged
    ELSE IF type = "transform" THEN ~(runner # "" /\ runner # "sql_transform")
    ELSE TRUE

\* The executor method of the running job returns (status success) or
\* raises (status failed, error recorded, exception re-raised): a call it
\* makes outside (reader, database, runner, writer) raises, or every such
\* call returns (outcome success) and a processor raises.  A dbt
\* runner closes the connection of the executor before dbt runs; when dbt
\* fails it raises with the connection closed (raise_closed), otherwise it
\* opens a new connection, which replaces the one of the executor.  An
\* extract job raises when its reader does (raise) or a processor does, and
\* otherwise stores the first kept table under its output table name.  The
\* except clause reads the policy on_error.
FinishJobUnder(on_error) ==
    /\ pc = "exec"
    /\ \E outcome \in {"success", "raise", "raise_closed"},
          staged \in BOOLEAN :
          LET reopens == ClosesAndReopens(CurrentType, executor_con,
                                          config.runner[CurrentJob])
              closed == [con_closes EXCEPT ![executor_con] = @ + 1]
              extracted ==
                  IF CurrentType = "extract"
                  THEN ExtractTables(source[CurrentJob], config.processors,
                                     config.output[CurrentJob],
                                     in_memory_tables)
                  ELSE [raised |-> FALSE, cache |-> in_memory_tables,
                        timed |-> TRUE]
              failed == ExecutorExcept(CurrentJob, status, job_error,
                                       end_time)
              calls == ProcessTables(source[CurrentJob], config.processors,
                                     1, <<>>).calls
          IN
          /\ outcome = "raise_closed" => reopens
          /\ outcome = "success" =>
                 ExecutorCanSucceed(CurrentType, executor_con)
          /\ proc_log' =
                 IF CurrentType = "extract" /\ outcome = "success"
                 THEN proc_log \o [k \in 1..Len(calls) |->
                                      <<CurrentJob, calls[k][1],
                                        calls[k][2]>>]
                 ELSE proc_log
          /\ (CurrentType # "stage" \/ outcome # "success") => staged
          /\ IF reopens /\ outcome = "success"
             THEN /\ con_closes' = Append(closed, 0)
                  /\ executor_con' = Len(closed) + 1
             ELSE IF reopens /\ outcome = "raise_closed"
             THEN /\ con_closes' = closed
                  /\ UNCHANGED executor_con
             ELSE UNCHANGED <<con_closes, executor_con>>
          /\ IF outcome = "success" /\ ~extracted.raised
             THEN /\ in_memory_tables' = extracted.cache
                  /\ status' = [status EXCEPT ![CurrentJob] = "success"]
                  /\ completed_jobs' = completed_jobs \cup {CurrentJob}
                  /\ completed_log' =
                         Append(completed_log, <<CurrentJob, stage_idx>>)
                  /\ end_time' =
                         [end_time EXCEPT ![CurrentJob] =
                             Timed(CurrentType, config.runner[CurrentJob],
                                   extracted, staged)]
                  /\ Advance
                  /\ UNCHANGED <<job_error, exc>>
             ELSE /\ job_error' = failed.job_error
                  /\ end_time' = failed.end_time
                  /\ IF failed.raised
                     THEN ExceptHandler(on_error, CurrentJob,
                                        [kind |-> "JobExecutionError",
                                         job |-> CurrentJob],
                                        failed.status)
                     ELSE \* the method returns: completed_jobs.add
                          /\ status' = failed.status
                          /\ completed_jobs' =
                                 completed_jobs \cup {CurrentJob}
                          /\ completed_log' =
                                 Append(completed_log,
                                        <<CurrentJob, stage_idx>>)
                          /\ Advance
                          /\ UNCHANGED exc
                  /\ UNCHANGED in_memory_tables
    /\ UNCHANGED <<config, stage_idx, ready_jobs, duckdb_con, close_log,
                   exec_log, source, summary, report, method>>
    /\ UNCHANGED <<call_vars, method_vars>>


\* the return of the running job under the configured policy
FinishJob == FinishJobUnder(OnError(config))
\* the number of jobs whose status is st
Count(st) == Cardinality({j \in Range(config.jobs) : status[j] = st})

\* faulty variant: a failure of the report generation propagates
Summary_report_fatal ==
    /\ pc = "summary"
    /\ summary' = [reported |-> TRUE, success |-> Count("success"),
                   failed |-> Count("failed"), skipped |-> Count("pending")]
    /\ IF config.reporting
       THEN \E generated \in BOOLEAN :
                /\ report' = IF generated THEN "generated" ELSE "failed"
                /\ exc' = IF generated THEN exc
                          ELSE [kind |-> "ReportError", job |-> ""]
       ELSE UNCHANGED <<report, exc>>
    /\ pc' = "finally"
    /\ UNCHANGED <<config, status, job_error, completed_jobs, stage_idx,
                   ready_jobs, ready_idx, duckdb_con, executor_con,
                   con_closes, close_log, exec_log, completed_log>>
    /\ UNCHANGED <<source, in_memory_tables, end_time, method>>
    /\ UNCHANGED <<call_vars, method_vars, proc_log>>

\* After the last stage: the summary of the job counts, then the pipeline
\* report when reporting is enabled; an exception of the report generation
\* is caught and logged.
Summary ==
    /\ pc = "summary"
    /\ summary' = [reported |-> TRUE, success |-> Count("success"),
                   failed |-> Count("failed"), skipped |-> Count("pending")]
    /\ IF config.reporting
       THEN \E generated \in BOOLEAN :
                report' = IF generated THEN "generated" ELSE "failed"
       ELSE UNCHANGED report
    /\ pc' = "finally"
    /\ UNCHANGED <<config, status, job_error, completed_jobs, stage_idx,
                   ready_jobs, ready_idx, duckdb_con, executor_con,
                   con_closes, close_log, exc, exec_log, completed_log>>
    /\ UNCHANGED <<source, in_memory_tables, end_time, method>>
    /\ UNCHANGED <<call_vars, method_vars, proc_log>>

\* faulty variant: the close is skipped while an exception propagates
Finally_not_on_raise ==
    /\ pc = "finally"
    /\ IF config.warehouse /\ duckdb_con # 0 /\ exc = NoExc
       THEN /\ close_log' = Append(close_log, duckdb_con)
            /\ con_closes' = [con_closes EXCEPT ![duckdb_con] = @ + 1]
       ELSE UNCHANGED <<close_log, con_closes>>
    /\ pc' = "done"
    /\ UNCHANGED <<config, status, job_error, completed_jobs, stage_idx,
                   ready_jobs, ready_idx, duckdb_con, executor_con, exc,
                   exec_log, completed_log>>
    /\ UNCHANGED <<source, in_memory_tables, summary, report, end_time,
                   method>>
    /\ UNCHANGED <<call_vars, method_vars, proc_log>>

\* The finally block: close the database through the engine plugin, then
\* return or let exc propagate.
Finally ==
    /\ pc = "finally"
    /\ IF config.warehouse /\ duckdb_con # 0
       THEN /\ close_log' = Append(close_log, duckdb_con)
            /\ con_closes' = [con_closes EXCEPT ![duckdb_con] = @ + 1]
       ELSE UNCHANGED <<close_log, con_closes>>
    /\ pc' = "done"
    /\ UNCHANGED <<config, status, job_error, completed_jobs, stage_idx,
                   ready_jobs, ready_idx, duckdb_con, executor_con, exc,
                   exec_log, completed_log>>
    /\ UNCHANGED <<source, in_memory_tables, summary, report, end_time,
                   method>>
    /\ UNCHANGED <<call_vars, method_vars, proc_log>>

Next ==
    \/ OpenDatabase
    \/ BuildJobs
    \/ NextReady
    \/ DispatchJob
    \/ FinishJob
    \/ Summary
    \/ Finally

Spec == Init /\ [][Next]_vars

\* the steps orchestrator() can take from a state when its except clause
\* reads the policy on_error
NextUnder(on_error) ==
    \/ OpenDatabase
    \/ BuildJobs
    \/ NextReady
    \/ DispatchJobUnder(on_error)
    \/ FinishJobUnder(on_error)
    \/ Summary
    \/ Finally

(***************************************************************************)
(* Runs over transform jobs                                                *)
(***************************************************************************)
\* jobs of one stage routed to execute_transform_job by the runner type,
\* each with its own runner key, with at most one dependency
TransformConfig(c) ==
    \E s \in StageNames, E \in KnownEdgeSets, rn \in [JobNames -> RunnerNames],
       sl \in StageLists, oe \in OnErrorValues, wh \in BOOLEAN :
        /\ Cardinality(E) <= 1
        /\ c = [Cfg([j \in JobNames |-> s], E, "transformer", sl, oe, wh)
                   EXCEPT !.runner = rn]

InitTransform ==
    /\ TransformConfig(config)
    /\ Entry

SpecTransform == InitTransform /\ [][Next]_vars

(***************************************************************************)
(* Runs over extract jobs                                                  *)
(***************************************************************************)
\* the two extract jobs of the family, in declaration order
ExtractJobs == <<"a", "b">>

\* the processors section shared by the two jobs
ExtractProcessors == <<"p1", "p2">>

\* processor outcomes on one table; no processor runs after one that did
\* not return a frame
OutcomeRows ==
    {r \in [1..Len(ExtractProcessors) -> ProcessorOutcomes] :
        \A i, k \in 1..Len(ExtractProcessors) :
            (i < k /\ r[i] # "ok") => r[k] = "ok"}

\* what a reader yields: up to n tables
Yields(n) == UNION {[1..m -> OutcomeRows] : m \in 0..n}

\* two extract jobs of any stage, b possibly depending on a, with output
\* table names, under stop or continue, without a warehouse database
ExtractConfig(c) ==
    \E st \in [Range(ExtractJobs) -> StageNames],
       E \in {{}, {<<"b", "a">>}},
       sl \in {<<"Extract">>, <<"Extract", "misc">>},
       oe \in {"stop", "continue"},
       oa \in {"", "T1"}, ob \in OutputNames :
        c = [jobs |-> ExtractJobs,
             stage |-> st,
             depends_on |-> [j \in Range(ExtractJobs) |->
                               {d \in JobNames : <<j, d>> \in E}],
             runner_type |-> "reader",
             runner |-> [j \in Range(ExtractJobs) |-> ""],
             processors |-> ExtractProcessors,
             output |-> [j \in Range(ExtractJobs) |->
                           IF j = "a" THEN oa ELSE ob],
             stages |-> sl,
             on_error |-> oe,
             warehouse |-> FALSE,
             reporting |-> FALSE]

\* the reader of a yields up to MaxTables tables, the reader of b at most
\* one
InitExtract ==
    /\ ExtractConfig(config)
    /\ \E ra \in Yields(MaxTables), rb \in Yields(1) :
           source = [j \in Range(ExtractJobs) |->
                        SourceOf(j, IF j = "a" THEN ra ELSE rb)]
    /\ Started
    /\ Unresolved

SpecExtract == InitExtract /\ [][Next]_vars

(***************************************************************************)
(* Calls of JobDAG.topological_sort_within_stage                           *)
(***************************************************************************)
\* the variables of orchestrator()
run_vars == <<config, pc, status, job_error, completed_jobs, stage_idx,
              ready_jobs, ready_idx, duckdb_con, executor_con, con_closes,
              close_log, source, in_memory_tables, exc, exec_log,
              completed_log, summary, report, end_time, method, proc_log,
              sql_log, registered, ctx, files>>

\* every job graph a JobDAG can be built from
SortConfig(c) ==
    \E st \in [JobNames -> StageNames] :
        \E E \in {F \in SUBSET (JobNames \X JobNames) :
                     Cardinality(F) <= MaxSortEdges} :
            c = Cfg(st, E, "reader", <<"Extract", "misc">>, "stop", FALSE)

InitSort ==
    /\ SortConfig(config)
    /\ Entry

\* one call dag.topological_sort_within_stage(stage) on the JobDAG of the
\* configuration
TopologicalSort ==
    /\ sort_call = NoCall
    /\ \E stage \in StageNames :
           sort_call' = topological_sort_within_stage(config, stage)
    /\ UNCHANGED <<run_vars, resolve_vars>>

NextSort == TopologicalSort

SpecSort == InitSort /\ [][NextSort]_vars

(***************************************************************************)
(* Calls of _expand on strings                                             *)
(***************************************************************************)
\* no pipeline is run: the variables of orchestrator() stay as they are
NoRun ==
    /\ config = [jobs |-> <<>>, stage |-> <<>>, depends_on |-> <<>>,
                 runner_type |-> "", runner |-> <<>>, processors |-> <<>>,
                 output |-> <<>>, stages |-> <<>>, on_error |-> "absent",
                 warehouse |-> FALSE,
                 reporting |-> FALSE]
    /\ source = <<>>
    /\ Started

\* names of the environment variables of the family
EnvKeys == {<<"A">>, <<"B">>}

\* their values: a plain text, a text holding a placeholder
EnvValues == {<<"x">>, <<"{", "B", "}">>}

InitExpand ==
    /\ NoRun
    /\ \E s \in StringsUpTo(MaxStringLen), D \in SUBSET EnvKeys :
           \E e \in [D -> EnvValues] :
               expand_call = [obj |-> s, env |-> e, result |-> <<>>,
                              called |-> FALSE]
    /\ os_environ = <<>>
    /\ raw_config = NoSettings
    /\ env = <<>>
    /\ resolved = NoSettings
    /\ resolve_step = 0
    /\ resolutions = <<>>

\* the call _expand(obj, env) returns
ExpandCall ==
    /\ ~expand_call.called
    /\ expand_call' =
           [expand_call EXCEPT
               !.result = ExpandStr(expand_call.obj, expand_call.env),
               !.called = TRUE]
    /\ UNCHANGED <<run_vars, sort_call, os_environ, raw_config, env,
                   resolved, resolve_step, resolutions>>

NextExpand == ExpandCall

SpecExpand == InitExpand /\ [][NextExpand]_vars

(***************************************************************************)
(* The variable resolution at the head of orchestrator()                   *)
(***************************************************************************)
\* the keys of the variables section
VariableKeys == {<<"A">>, <<"B">>}

\* a literal and the placeholders of the two variables, in both forms
Tokens ==
    {<<"x">>,
     <<"{", "A", "}">>, <<"$", "{", "A", "}">>,
     <<"{", "B", "}">>, <<"$", "{", "B", "}">>}

\* the concatenation of a sequence of strings
RECURSIVE Concat(_)
Concat(ss) == IF ss = <<>> THEN <<>> ELSE Head(ss) \o Concat(Tail(ss))

\* values of a pipeline variable: up to n tokens
TokenStrings(n) == {Concat(ts) : ts \in UNION {[1..m -> Tokens] : m \in 0..n}}

\* variables sections: the declared keys in order, each with a value
VariableSections ==
    {<<>>}
    \cup {<<<<k, v>>>> : k \in VariableKeys, v \in TokenStrings(MaxTokens)}
    \cup {vs \in (VariableKeys \X TokenStrings(MaxTokens))
                    \X (VariableKeys \X TokenStrings(MaxTokens)) :
             vs[1][1] # vs[2][1]}

\* process environments: variables B and C, each absent, a plain text or
\* a text holding a placeholder
OsEnvirons ==
    UNION {[D -> {<<"x">>, <<"{", "C", "}">>}] :
               D \in SUBSET {<<"B">>, <<"C">>}}

InitResolve ==
    /\ NoRun
    /\ expand_call = NoExpand
    /\ os_environ \in OsEnvirons
    /\ \E vs \in VariableSections, t \in Tokens :
           raw_config = [variables |-> vs, settings |-> <<t>>]
    /\ env = <<>>
    /\ resolved = NoSettings
    /\ resolve_step = 0
    /\ resolutions = <<>>

\* faulty variant: env is os.environ itself, so a write to env is a
\* write to os.environ
EnvironAfterWrite_aliased(environ, key, value) ==
    [k \in DOMAIN environ \cup {key} |->
        IF k = key THEN value ELSE environ[k]]

\* os.environ after env[key] = value: env is the copy dict(os.environ)
EnvironAfterWrite(environ, key, value) == environ

\* env = dict(os.environ)
CopyEnviron ==
    /\ resolve_step = 0
    /\ env' = os_environ
    /\ resolve_step' = 1
    /\ UNCHANGED <<run_vars, sort_call, expand_call, os_environ, raw_config,
                   resolved, resolutions>>

\* one iteration of the loop over pipeline_vars.items()
ExpandVariable ==
    /\ resolve_step \in 1..Len(raw_config.variables)
    /\ LET key == raw_config.variables[resolve_step][1]
           value == raw_config.variables[resolve_step][2]
           expanded == ExpandStr(value, env)
       IN /\ env' = [k \in DOMAIN env \cup {key} |->
                        IF k = key THEN expanded ELSE env[k]]
          /\ os_environ' = EnvironAfterWrite(os_environ, key, expanded)
    /\ resolve_step' = resolve_step + 1
    /\ UNCHANGED <<run_vars, sort_call, expand_call, raw_config, resolved,
                   resolutions>>

\* config = _expand(pipeline_config, env)
ExpandConfig ==
    /\ resolve_step = Len(raw_config.variables) + 1
    /\ resolved' = Expand(raw_config, env)
    /\ resolutions' = Append(resolutions, resolved')
    /\ resolve_step' = resolve_step + 1
    /\ UNCHANGED <<run_vars, sort_call, expand_call, os_environ, raw_config,
                   env>>

\* the same pipeline_config is resolved once more in the same process
ResolveAgain ==
    /\ resolve_step = Len(raw_config.variables) + 2
    /\ Len(resolutions) < MaxResolutions
    /\ resolve_step' = 0
    /\ UNCHANGED <<run_vars, sort_call, expand_call, os_environ, raw_config,
                   env, resolved, resolutions>>

NextResolve ==
    \/ CopyEnviron
    \/ ExpandVariable
    \/ ExpandConfig
    \/ ResolveAgain

SpecResolve == InitResolve /\ [][NextResolve]_vars

(***************************************************************************)
(* Runs in which every step that can be taken is taken: the database       *)
(* engine answers and every executor method returns or raises              *)
(***************************************************************************)
SpecTerminating == Init /\ [][Next]_vars /\ WF_vars(Next)

(***************************************************************************)
(* Runs with reporting enabled                                             *)
(***************************************************************************)
\* job graphs with at most one dependency, reporting.enabled being true
ReportConfig(c) ==
    \E st \in [JobNames -> StageNames], E \in KnownEdgeSets,
       rt \in RunnerTypes, sl \in StageLists, oe \in OnErrorValues,
       wh \in BOOLEAN :
        /\ Cardinality(E) <= 1
        /\ c = [Cfg(st, E, rt, sl, oe, wh) EXCEPT !.reporting = TRUE]

InitReport ==
    /\ ReportConfig(config)
    /\ Entry

SpecReport == InitReport /\ [][Next]_vars

(***************************************************************************)
(* Runs over the four job pipelines                                        *)
(***************************************************************************)
\* stage names of the family: one per substring of the heuristic, and one
\* without any
DispatchStageNames ==
    {"Extract", "misc", "Staging", "transform", "load", "Export"}

\* values of the type field of the runner: none, the four runner types and
\* a value that is none of them
DispatchRunnerTypes ==
    {"", "reader", "stager", "transformer", "writer", "custom"}

\* pipelines of one or more stages, jobs a and b in the first stage and c
\* in the last one, with at most one dependency
DispatchConfig(c) ==
    \E sl \in UNION {[1..n -> DispatchStageNames] : n \in 1..MaxStages},
       E \in KnownEdgeSets, rt \in DispatchRunnerTypes,
       oe \in {"stop", "continue"}, wh \in BOOLEAN :
        /\ Cardinality(E) <= 1
        /\ c = Cfg([j \in JobNames |->
                       IF j = "c" THEN sl[Len(sl)] ELSE sl[1]],
                   E, rt, sl, oe, wh)

InitDispatch ==
    /\ DispatchConfig(config)
    /\ Entry

SpecDispatch == InitDispatch /\ [][Next]_vars

(***************************************************************************)
(* Runs over one extract job and its processors list                       *)
(***************************************************************************)
\* what an entry of a processors list names: nothing, a processor of the
\* registry, a name the registry does not hold
ProcessorNames == {"", "p1", "bogus"}

\* the processors lists of the family
ProcessorLists == [1..Len(ExtractProcessors) -> ProcessorNames]

\* what each processor of a list does with one table when it is called
AnyOutcomeRows == [1..Len(ExtractProcessors) -> ProcessorOutcomes]

\* one extract job a with a processors list, with or without an output
\* table name, under stop or continue
ProcessorsConfig(c) ==
    \E pl \in ProcessorLists, oe \in {"stop", "continue"},
       oa \in {"", "T1"} :
        c = [jobs |-> <<"a">>,
             stage |-> [j \in {"a"} |-> "Extract"],
             depends_on |-> [j \in {"a"} |-> {}],
             runner_type |-> "reader",
             runner |-> [j \in {"a"} |-> ""],
             processors |-> pl,
             output |-> [j \in {"a"} |-> oa],
             stages |-> <<"Extract">>,
             on_error |-> oe,
             warehouse |-> FALSE,
             reporting |-> FALSE]

\* the reader of a yields up to MaxTables tables
InitProcessors ==
    /\ ProcessorsConfig(config)
    /\ \E m \in 0..MaxTables :
           \E ra \in [1..m -> AnyOutcomeRows] :
               source = [j \in {"a"} |-> SourceOf(j, ra)]
    /\ Started
    /\ Unresolved

SpecProcessors == InitProcessors /\ [][Next]_vars

(***************************************************************************)
(* The methods of JobExecutor for stage, transform and load jobs, called   *)
(* on an executor one job after the other                                  *)
(***************************************************************************)
\* longest workflow file, in steps
MaxSteps == 2

\* longest input.tables list of a stage job
MaxInputs == 2

\* the SQL texts: none, blank, one the database executes, one it rejects
SqlTexts == {"", " ", "good", "bad"}

\* the SQL file names: a workflow file and a plain SQL file
SqlFiles == {"w.yaml", "f.sql"}

\* the names a stage job declares as input
InputNames == CacheKeys

\* table names are texts, a text is a sequence of pieces
NameOf(T) == <<T>>

\* the table_prefix option: none or a text
TablePrefixes == {<<>>, <<"stg_">>}

\* the table_mapping option: no entry or one for T1
TableMappings == {<<>>, [T \in {"T1"} |-> <<"M">>]}

\* str.strip() on a SQL text
Strip(sql) == IF sql = " " THEN "" ELSE sql

\* str.endswith('.yaml') on a file name
EndsWithYaml(name) == name = "w.yaml"

\* duckdb_con.execute(sql) raises
ExecuteRaises(sql) == sql = "bad"

\* faulty variant: a step that fails is recorded and the next one runs
RECURSIVE ExecuteAll_per_step(_, _)
ExecuteAll_per_step(transformations, i) ==
    IF i > Len(transformations) THEN [raised |-> FALSE, executed |-> <<>>]
    ELSE LET sql == Strip(transformations[i])
             rest == ExecuteAll_per_step(transformations, i + 1)
         IN IF sql = "" THEN rest
            ELSE [rest EXCEPT !.executed = <<i>> \o @]

\* YamlSqlTransform.execute_all from step i: whether it raises and the
\* steps whose SQL was passed to duckdb_con.execute
RECURSIVE ExecuteAll(_, _)
ExecuteAll(transformations, i) ==
    IF i > Len(transformations) THEN [raised |-> FALSE, executed |-> <<>>]
    ELSE LET sql == Strip(transformations[i])
         IN IF sql = ""
            THEN \* ValueError: the transformation has no SQL
                 [raised |-> TRUE, executed |-> <<>>]
            ELSE IF ExecuteRaises(sql)
            THEN [raised |-> TRUE, executed |-> <<i>>]
            ELSE LET rest == ExecuteAll(transformations, i + 1)
                 IN [rest EXCEPT !.executed = <<i>> \o @]

\* the statements of one source, as <<source, n>>
From(src, ns) == [k \in 1..Len(ns) |-> <<src, ns[k]>>]

\* the SQL branch of execute_transform_job: whether it raises and the
\* statements it executes, as <<source, n>>
SqlTransform(sql, sql_file, disk) ==
    IF sql_file # "" /\ EndsWithYaml(sql_file)
    THEN IF sql_file \notin DOMAIN disk
         THEN \* FileNotFoundError
              [raised |-> TRUE, executed |-> <<>>]
         ELSE IF ~disk[sql_file].valid
         THEN \* YamlSqlTransform._load: ValueError
              [raised |-> TRUE, executed |-> <<>>]
         ELSE LET all == ExecuteAll(disk[sql_file].transformations, 1)
              IN [raised |-> all.raised,
                  executed |-> From("workflow", all.executed)]
    ELSE IF sql_file # ""
    THEN IF sql_file \notin DOMAIN disk
         THEN [raised |-> TRUE, executed |-> <<>>]
         ELSE [raised |-> ExecuteRaises(disk[sql_file].text),
               executed |-> From("file", <<1>>)]
    ELSE IF sql # ""
    THEN [raised |-> ExecuteRaises(sql), executed |-> From("inline", <<1>>)]
    ELSE \* ValueError: the job has no SQL to execute
         [raised |-> TRUE, executed |-> <<>>]

\* faulty variant: the prefix is preferred to the mapping
StagedName_prefix_first(T, table_mapping, table_prefix) ==
    IF table_prefix # <<>> THEN table_prefix \o NameOf(T)
    ELSE IF T \in DOMAIN table_mapping THEN table_mapping[T]
    ELSE NameOf(T)

\* the name under which input T is staged
StagedName(T, table_mapping, table_prefix) ==
    IF T \in DOMAIN table_mapping THEN table_mapping[T]
    ELSE IF table_prefix # <<>> THEN table_prefix \o NameOf(T)
    ELSE NameOf(T)

\* the test `table_name in self.in_memory_tables`
InCache(T, cache) == T \in DOMAIN cache /\ cache[T] # NoTable

\* the for-loop of execute_stage_job over input.tables, from input i: the
\* list tables_to_stage of new Table objects
RECURSIVE TablesToStage(_, _, _, _, _)
TablesToStage(input_tables, table_mapping, table_prefix, cache, i) ==
    IF i > Len(input_tables) THEN <<>>
    ELSE LET T == input_tables[i]
             rest == TablesToStage(input_tables, table_mapping,
                                   table_prefix, cache, i + 1)
         IN IF InCache(T, cache)
            THEN <<[name |-> StagedName(T, table_mapping, table_prefix),
                    input |-> T,
                    df |-> cache[T]]>> \o rest
            ELSE rest

\* the executor method the orchestrator routes job j to
TypeOf(j) == ResolveJobType(config.runner_type, config.stage[j])

\* the method called on job j returns: Job.status and, at the end of the
\* try body, end_time and duration
Returns(j, timed) ==
    /\ status' = [status EXCEPT ![j] = "success"]
    /\ end_time' = [end_time EXCEPT ![j] = timed]
    /\ UNCHANGED <<job_error, exc>>

\* the method called on job j raises through its except clause
Fails(j) ==
    LET failed == ExecutorExcept(j, status, job_error, end_time)
    IN /\ status' = failed.status
       /\ job_error' = failed.job_error
       /\ end_time' = failed.end_time
       /\ exc' = IF failed.raised
                 THEN [kind |-> "JobExecutionError", job |-> j]
                 ELSE NoExc

\* what no method of the executor touches
ExecutorFrame ==
    /\ UNCHANGED <<config, pc, completed_jobs, stage_idx, ready_jobs,
                   ready_idx, duckdb_con, close_log, source, exec_log,
                   completed_log, summary, report, proc_log, files>>
    /\ UNCHANGED call_vars

\* faulty variant: an input that is not in the cache is staged as an empty
\* table
StageTables_absent_staged(input_tables, table_mapping, table_prefix, cache) ==
    [i \in 1..Len(input_tables) |->
        [name |-> StagedName(input_tables[i], table_mapping, table_prefix),
         input |-> input_tables[i],
         df |-> IF InCache(input_tables[i], cache)
                THEN cache[input_tables[i]] ELSE NoTable]]

\* tables_to_stage of a stage job
StageTables(input_tables, table_mapping, table_prefix, cache) ==
    TablesToStage(input_tables, table_mapping, table_prefix, cache, 1)

\* faulty variant: registration is attempted without a connection
CanRegister_always(con, db_engine) == TRUE

\* the test `self.duckdb_con and self.db_engine`
CanRegister(con, db_engine) == con # 0 /\ db_engine

\* execute_stage_job on a pending job j.  register_tables returns or raises.
ExecuteStageJob ==
    \E j \in Range(config.jobs), ok \in BOOLEAN :
        LET tables_to_stage ==
                StageTables(config.input[j], config.table_mapping[j],
                            config.table_prefix[j], in_memory_tables)
            registers == /\ tables_to_stage # <<>>
                         /\ CanRegister(executor_con, config.warehouse)
        IN /\ pc = "executor"
           /\ status[j] = "pending"
           /\ TypeOf(j) = "stage"
           /\ method' = [method EXCEPT ![j] = "stage"]
           /\ ~registers => ok
           /\ registered' =
                  IF registers
                  THEN Append(registered,
                              [job |-> j, con |-> executor_con,
                               tables |-> tables_to_stage])
                  ELSE registered
           /\ IF ok
              THEN Returns(j, tables_to_stage # <<>>)
              ELSE Fails(j)
           /\ UNCHANGED <<executor_con, con_closes, in_memory_tables,
                          sql_log, ctx>>
           /\ ExecutorFrame

\* faulty variant: the executor keeps its own handle after the runner
HandleAfterRunner_kept(con, context) == con

\* self.duckdb_con = ctx.get("duckdb", self.duckdb_con)
HandleAfterRunner(con, context) == context.duckdb

\* the test `runner_name and runner_name != "sql_transform"`
Delegated(runner_name) == runner_name # "" /\ runner_name # "sql_transform"

\* faulty variant: the inline SQL is preferred to the file
RunSql_inline_first(sql, sql_file, disk) ==
    IF sql # "" THEN SqlTransform(sql, "", disk)
    ELSE SqlTransform(sql, sql_file, disk)

\* the SQL the default runner executes for a job
RunSql(sql, sql_file, disk) == SqlTransform(sql, sql_file, disk)

\* execute_transform_job on a pending job j.  Without a connection it
\* raises.  A job that names a runner is handed to it with the context
\* ctx: the runner raises before it touches the connection (raise), or it
\* closes the connection and raises (raise_closed), or it returns, a dbt
\* runner having closed the connection and opened a new one.  Otherwise
\* the SQL of the job is executed.
ExecuteTransformJob ==
    \E j \in Range(config.jobs),
       outcome \in {"success", "raise", "raise_closed"} :
        LET runner_name == config.runner[j]
            reopens == ClosesAndReopens("transform", executor_con,
                                        runner_name)
            closed == [con_closes EXCEPT ![executor_con] = @ + 1]
            returned == [called |-> TRUE,
                         duckdb |-> IF reopens THEN Len(closed) + 1
                                    ELSE executor_con]
            run == RunSql(config.sql[j], config.sql_file[j], files)
        IN /\ pc = "executor"
           /\ status[j] = "pending"
           /\ TypeOf(j) = "transform"
           /\ method' = [method EXCEPT ![j] = "transform"]
           /\ IF executor_con = 0
              THEN /\ outcome = "raise"
                   /\ Fails(j)
                   /\ UNCHANGED <<executor_con, con_closes, sql_log, ctx>>
              ELSE IF Delegated(runner_name)
              THEN /\ outcome = "raise_closed" => reopens
                   /\ IF outcome = "success"
                      THEN /\ con_closes' = IF reopens THEN Append(closed, 0)
                                            ELSE con_closes
                           /\ ctx' = returned
                           /\ executor_con' =
                                  HandleAfterRunner(executor_con, returned)
                           /\ Returns(j, FALSE)
                      ELSE /\ con_closes' = IF outcome = "raise_closed"
                                            THEN closed ELSE con_closes
                           /\ Fails(j)
                           /\ UNCHANGED <<executor_con, ctx>>
                   /\ UNCHANGED sql_log
              ELSE /\ outcome = (IF run.raised THEN "raise" ELSE "success")
                   /\ sql_log' =
                          sql_log \o
                          [k \in 1..Len(run.executed) |->
                              <<j, executor_con, run.executed[k][1],
                                run.executed[k][2]>>]
                   /\ IF run.raised THEN Fails(j) ELSE Returns(j, TRUE)
                   /\ UNCHANGED <<executor_con, con_closes, ctx>>
           /\ UNCHANGED <<in_memory_tables, registered>>
           /\ ExecutorFrame

\* execute_load_job on a pending job j.  Without a connection it raises.
\* Otherwise it raises before its query (no table or query, queried
\* FALSE), or the query is executed and the query or the writer raises, or
\* the file is written.
ExecuteLoadJob ==
    \E j \in Range(config.jobs), queried \in BOOLEAN, ok \in BOOLEAN :
        /\ pc = "executor"
        /\ status[j] = "pending"
        /\ TypeOf(j) = "load"
        /\ method' = [method EXCEPT ![j] = "load"]
        /\ ok => queried
        /\ executor_con = 0 => ~queried
        /\ sql_log' = IF queried
                      THEN Append(sql_log, <<j, executor_con, "query", 1>>)
                      ELSE sql_log
        /\ IF ok THEN Returns(j, TRUE) ELSE Fails(j)
        /\ UNCHANGED <<executor_con, con_closes, in_memory_tables,
                       registered, ctx>>
        /\ ExecutorFrame

NextExecutor ==
    \/ ExecuteStageJob
    \/ ExecuteTransformJob
    \/ ExecuteLoadJob

\* the workflow files: not valid YAML, or up to MaxSteps steps
WorkflowFiles ==
    {[valid |-> FALSE, transformations |-> <<>>]} \cup
    {[valid |-> TRUE, transformations |-> t] :
        t \in UNION {[1..n -> SqlTexts] : n \in 0..MaxSteps}}

\* the plain SQL files
PlainFiles == {[text |-> t] : t \in {"good", "bad"}}

\* what is on disk for a job that names sql_file
Disks(sql_file) ==
    IF sql_file = "" THEN {<<>>}
    ELSE {<<>>} \cup
         {[n \in {sql_file} |-> c] :
             c \in IF EndsWithYaml(sql_file) THEN WorkflowFiles
                   ELSE PlainFiles}

\* the input.tables lists of a stage job
InputLists == UNION {[1..n -> InputNames] : n \in 0..MaxInputs}

\* a table an extract job stored under T
Stored(T) == [file |-> <<T, 1>>, outcomes |-> <<>>]

\* Job a is a transform job with any runner, inline SQL and SQL file; job
\* b is a load job, a transform job with inline SQL or, when a names no
\* SQL file, a stage job with any inputs, mapping and prefix.  Both are
\* routed by their stage names.
ExecutorConfig(c) ==
    \E rn \in RunnerNames, sa \in {"", "good"}, fa \in SqlFiles \cup {""},
       sb \in {"Staging", "load", "transform"}, wh \in BOOLEAN,
       il \in InputLists, tm \in TableMappings, tp \in TablePrefixes,
       qb \in {"good", "bad"} :
        /\ sb # "Staging" => (il = <<>> /\ tm = <<>> /\ tp = <<>>)
        /\ sb = "Staging" => fa = ""
        /\ sb # "transform" => qb = "good"
        /\ c = [jobs |-> <<"a", "b">>,
                stage |-> [j \in {"a", "b"} |->
                              IF j = "a" THEN "transform" ELSE sb],
                depends_on |-> [j \in {"a", "b"} |-> {}],
                runner_type |-> "",
                runner |-> [j \in {"a", "b"} |-> IF j = "a" THEN rn ELSE ""],
                sql |-> [j \in {"a", "b"} |->
                            IF j = "a" THEN sa
                            ELSE IF sb = "transform" THEN qb ELSE ""],
                sql_file |-> [j \in {"a", "b"} |->
                                 IF j = "a" THEN fa ELSE ""],
                input |-> [j \in {"a", "b"} |-> IF j = "a" THEN <<>> ELSE il],
                table_mapping |-> [j \in {"a", "b"} |->
                                      IF j = "a" THEN <<>> ELSE tm],
                table_prefix |-> [j \in {"a", "b"} |->
                                     IF j = "a" THEN <<>> ELSE tp],
                processors |-> <<>>,
                output |-> [j \in {"a", "b"} |-> ""],
                stages |-> <<"transform", sb>>,
                on_error |-> "continue",
                warehouse |-> wh,
                reporting |-> FALSE]

\* A JobExecutor as orchestrator() creates it, with the connection of the
\* warehouse database when one is configured, after extract jobs have
\* stored tables under some of the cache keys; both jobs are pending.
InitExecutor ==
    /\ ExecutorConfig(config)
    /\ pc = "executor"
    /\ status = [j \in Range(config.jobs) |-> "pending"]
    /\ job_error = [j \in Range(config.jobs) |-> "none"]
    /\ end_time = [j \in Range(config.jobs) |-> FALSE]
    /\ method = [j \in Range(config.jobs) |-> ""]
    /\ completed_jobs = {}
    /\ stage_idx = 0
    /\ ready_jobs = <<>>
    /\ ready_idx = 0
    /\ duckdb_con = IF config.warehouse THEN 1 ELSE 0
    /\ executor_con = duckdb_con
    /\ con_closes = IF config.warehouse THEN <<0>> ELSE <<>>
    /\ close_log = <<>>
    /\ exc = NoExc
    /\ exec_log = <<>>
    /\ completed_log = <<>>
    /\ sort_call = NoCall
    /\ summary = NoSummary
    /\ report = "none"
    /\ source = [j \in Range(config.jobs) |-> <<>>]
    /\ \E S \in SUBSET CacheKeys :
           in_memory_tables =
               [T \in CacheKeys |-> IF T \in S THEN Stored(T) ELSE NoTable]
    /\ files \in Disks(config.sql_file["a"])
    /\ proc_log = <<>>
    /\ sql_log = <<>>
    /\ registered = <<>>
    /\ ctx = NoContext
    /\ Unresolved

SpecExecutor == InitExecutor /\ [][NextExecutor]_vars

(***************************************************************************)
(* Runs over a job graph with two jobs of one stage depending on each      *)
(* other, with a call of the sort on the JobDAG of the run                 *)
(***************************************************************************)
\* jobs A and B of one stage name each other in depends_on
MutualDependency(cfg, A, B) ==
    /\ A # B
    /\ cfg.stage[A] = cfg.stage[B]
    /\ B \in cfg.depends_on[A]
    /\ A \in cfg.depends_on[B]

InitCycle ==
    /\ SchedulingConfig(config)
    /\ \E A, B \in JobNames : MutualDependency(config, A, B)
    /\ Entry

\* the sort is a method of the JobDAG: it can be called while dag exists
SortDuringRun ==
    /\ pc \in {"stage", "dispatch", "exec", "summary"}
    /\ TopologicalSort

NextCycle == Next \/ SortDuringRun

SpecCycle == InitCycle /\ [][NextCycle]_vars

(***************************************************************************)
(* Vocabulary of the properties                                            *)
(***************************************************************************)
Jobs == Range(config.jobs)

Policy == HandlerDecision(OnError(config))

\* names in the order they entered completed_jobs / an executor method
CompletedNames == [i \in 1..Len(completed_log) |-> completed_log[i][1]]
ExecNames == [i \in 1..Len(exec_log) |-> exec_log[i][1]]

NoDuplicates(s) == \A i, k \in 1..Len(s) : s[i] = s[k] => i = k

\* jobs reachable from j along depends_on, in at most n steps
RECURSIVE DepClosure(_, _)
DepClosure(S, n) ==
    IF n = 0 THEN S
    ELSE DepClosure(S \cup UNION {config.depends_on[j] \cap Jobs : j \in S},
                    n - 1)

Acyclic ==
    \A j \in Jobs :
        j \notin DepClosure(config.depends_on[j] \cap Jobs, Len(config.jobs))

\* stage index at which j entered completed_jobs, 0 if it never did
CompletedAt(j) ==
    IF \E i \in 1..Len(completed_log) : completed_log[i][1] = j
    THEN completed_log[CHOOSE i \in 1..Len(completed_log) :
                           completed_log[i][1] = j][2]
    ELSE 0

\* last position of a stage name in the stages list, 0 if undeclared
LastIdx(stage) ==
    IF \E i \in 1..Len(config.stages) : config.stages[i] = stage
    THEN CHOOSE i \in 1..Len(config.stages) :
             /\ config.stages[i] = stage
             /\ \A k \in 1..Len(config.stages) :
                    config.stages[k] = stage => k <= i
    ELSE 0

Executed(j) == status[j] \in {"success", "failed"}

(***************************************************************************)
(* Properties                                                              *)
(***************************************************************************)

\* C1: over an acyclic dependency graph, under every error policy, a job
\* enters its executor method only when every name of its depends_on is
\* already in completed_jobs, and the order in which names enter
\* completed_jobs never places a job before one of its dependencies.
C1_DependenciesFirst ==
    Acyclic =>
        /\ pc = "exec" => config.depends_on[CurrentJob] \subseteq completed_jobs
        /\ \A i \in 1..Len(CompletedNames) :
               \A dep \in config.depends_on[CompletedNames[i]] :
                   \E k \in 1..(i - 1) : CompletedNames[k] = dep

\* C1 witness: a finished run over an acyclic graph in which a job and one
\* of its dependencies both succeeded.
C1_Witness ==
    /\ pc = "done"
    /\ Acyclic
    /\ \E j \in Jobs : \E dep \in config.depends_on[j] :
           /\ status[j] = "success"
           /\ status[dep] = "success"

\* every job names a declared stage
StagesDeclared == \A j \in Jobs : config.stage[j] \in Range(config.stages)

\* C2 as stated (over acyclic graphs whose stages are all declared): under
\* continue a job that raises ends failed and in completed_jobs, the run is
\* not aborted, and at the end of the run every job depending on it has
\* been executed.
C2_AllDependentsExecuted ==
    (Policy = "continue" /\ Acyclic /\ StagesDeclared) =>
        /\ exc.job = ""
        /\ \A j \in Jobs :
               job_error[j] = "error" =>
                   /\ status[j] = "failed"
                   /\ j \in completed_jobs
                   /\ pc = "done" =>
                          \A k \in Jobs :
                              j \in config.depends_on[k] => Executed(k)

\* C2 amended: under continue a job that raises ends failed and in
\* completed_jobs, the run is not aborted, and at the end of the run every
\* job depending on it has been executed provided each of the dependent's
\* dependencies entered completed_jobs no later than the last readiness
\* loop of the dependent's own stage.
C2_FailureUnblocksDependents ==
    Policy = "continue" =>
        /\ exc.job = ""
        /\ \A j \in Jobs :
               job_error[j] = "error" =>
                   /\ status[j] = "failed"
                   /\ j \in completed_jobs
                   /\ pc = "done" =>
                          \A k \in Jobs :
                              (/\ j \in config.depends_on[k]
                               /\ \A dep \in config.depends_on[k] :
                                      /\ CompletedAt(dep) # 0
                                      /\ CompletedAt(dep)
                                             <= LastIdx(config.stage[k]))
                              => Executed(k)

\* C2 witness: a finished run under continue in which an executor raised
\* for a job and a job depending on it was executed afterwards.
C2_Witness ==
    /\ pc = "done"
    /\ config.on_error = "continue"
    /\ \E j, k \in Jobs :
           /\ j \in config.depends_on[k]
           /\ job_error[j] = "error"
           /\ status[j] = "failed"
           /\ Executed(k)

\* C3: when an executor raises under on_error = stop, or with on_error not
\* configured, that exception propagates out of orchestrator() and the
\* failing job is the last one that was started; once an exception of a
\* job propagates, no job is started and no status changes.
C3_StopAborts ==
    /\ [](config.on_error \in {"stop", "absent"} =>
            \A j \in Jobs :
                job_error[j] = "error" =>
                    /\ pc \in {"finally", "done"}
                    /\ exc = [kind |-> "JobExecutionError", job |-> j]
                    /\ ExecNames[Len(ExecNames)] = j
                    /\ j \notin completed_jobs)
    /\ [][(config.on_error \in {"stop", "absent"} /\ exc.job # "") =>
            (exec_log' = exec_log /\ status' = status /\ exc' = exc)]_vars

\* C3 witness: a run under stop that ended by raising the exception of a
\* job while another job of the same ready batch had not been started.
C3_Witness ==
    /\ pc = "done"
    /\ config.on_error = "stop"
    /\ exc.kind = "JobExecutionError"
    /\ ready_idx < Len(ready_jobs)
    /\ status[ready_jobs[ready_idx + 1]] = "pending"

\* a depends_on entry that is no key of the jobs section
HasUnknownDependency ==
    \E j \in Jobs : \E dep \in config.depends_on[j] : dep \notin Jobs

\* the JobDAG constructor has been called
DagAttempted ==
    /\ pc \notin {"open", "parse"}
    /\ exc.kind # "ConnectError"
    /\ config.jobs # <<>>

\* C4: the JobDAG constructor raises exactly when some depends_on entry is
\* no key of the jobs section (cycles and self-references are accepted),
\* and when it raises every job still has status pending.
C4_UnknownDependencyOnly ==
    DagAttempted =>
        /\ exc.kind = "UnknownDependency" <=> HasUnknownDependency
        /\ exc.kind = "UnknownDependency" =>
               /\ \A j \in Jobs : status[j] = "pending"
               /\ exec_log = <<>>
               /\ completed_jobs = {}

\* C4 witness: orchestrator() ended by raising the unknown-dependency error
\* under continue policy, the last job of the section naming the unknown job.
C4_Witness ==
    /\ pc = "done"
    /\ exc.kind = "UnknownDependency"
    /\ config.on_error = "continue"
    /\ Ghost \in config.depends_on[config.jobs[Len(config.jobs)]]
    /\ Ghost \notin config.depends_on[config.jobs[1]]

\* C5: wherever the stage loop calls get_ready_jobs, for every stage and
\* every set of job names as completed argument, it returns exactly the
\* jobs of that stage with status pending whose depends_on names are all
\* in the set, each once; the call changes no job status and not the
\* completed set.
C5_ReadyJobsExact ==
    /\ [](pc = "stage" =>
          \A stage \in StageNames : \A completed \in SUBSET Jobs :
            LET ready == get_ready_jobs(stage, completed)
            IN /\ Range(ready) =
                      {j \in Jobs :
                          /\ config.stage[j] = stage
                          /\ status[j] = "pending"
                          /\ config.depends_on[j] \subseteq completed}
               /\ NoDuplicates(ready))
    /\ [][pc = "stage" =>
            (status' = status /\ completed_jobs' = completed_jobs)]_vars

\* C5 witness: a ready batch holding a job whose dependency belongs to
\* another stage, while another pending job of the stage is left out.
C5_Witness ==
    /\ pc = "dispatch"
    /\ ready_idx = 1
    /\ \E j \in Range(ready_jobs) : \E dep \in config.depends_on[j] :
           config.stage[dep] # config.stage[j]
    /\ \E k \in Jobs :
           /\ k \notin Range(ready_jobs)
           /\ config.stage[k] = CurrentStage
           /\ status[k] = "pending"

\* C6: completed_jobs only grows, and no job name is added to it a second
\* time: the names added so far are exactly its members, each added once,
\* whether the job succeeded or failed.
C6_CompletedGrowsOnce ==
    /\ [](/\ NoDuplicates(CompletedNames)
          /\ Range(CompletedNames) = completed_jobs)
    /\ [][completed_jobs \subseteq completed_jobs']_vars

\* C6 witness: a finished run in which every job entered completed_jobs,
\* one after succeeding and one after failing.
C6_Witness ==
    /\ pc = "done"
    /\ config.jobs # <<>>
    /\ completed_jobs = Jobs
    /\ \E j, k \in Jobs : status[j] = "success" /\ status[k] = "failed"

\* the changes of Job.status the state machine allows
AllowedTransitions ==
    {<<"pending", "running">>, <<"running", "success">>,
     <<"running", "failed">>}

\* C7: every change of a job's status is pending -> running,
\* running -> success or running -> failed.
C7_StatusTransitions ==
    [][\A j \in Jobs :
           status'[j] # status[j] =>
               <<status[j], status'[j]>> \in AllowedTransitions]_vars

\* C8: no job enters an executor method twice in one run.
C8_DispatchedAtMostOnce == NoDuplicates(ExecNames)

\* C8 witness: a finished run under continue over a stage list naming the
\* same stage twice, in which a job of that stage failed and another
\* succeeded.
C8_Witness ==
    /\ pc = "done"
    /\ config.on_error = "continue"
    /\ Len(config.stages) = 2
    /\ config.stages[1] = config.stages[2]
    /\ \E j, k \in Jobs :
           /\ config.stage[j] = config.stages[1]
           /\ config.stage[k] = config.stages[1]
           /\ job_error[j] = "error"
           /\ status[k] = "success"

\* position of a stage name in a stages list without duplicates, 0 if
\* the list does not name it
StagePos(stage) ==
    IF \E i \in 1..Len(config.stages) : config.stages[i] = stage
    THEN CHOOSE i \in 1..Len(config.stages) : config.stages[i] = stage
    ELSE 0

\* C9: over a stages list without duplicates the jobs are started in stage
\* declaration order: a job started later never belongs to an earlier
\* declared stage than a job started before it.
C9_StagesInOrder ==
    NoDuplicates(config.stages) =>
        \A i, k \in 1..Len(ExecNames) :
            i < k =>
                StagePos(config.stage[ExecNames[i]])
                    <= StagePos(config.stage[ExecNames[k]])

\* C9 witness: a finished run over two distinct stages in which the job
\* declared first belongs to the second stage and jobs of both stages ran.
C9_Witness ==
    /\ pc = "done"
    /\ config.jobs # <<>>
    /\ Len(config.stages) = 2
    /\ NoDuplicates(config.stages)
    /\ config.stage[config.jobs[1]] = config.stages[2]
    /\ \E j \in Jobs :
           /\ config.stage[j] = config.stages[1]
           /\ Executed(j)
    /\ Executed(config.jobs[1])

\* C10: when orchestrator() has returned or raised and a warehouse
\* connection was opened, the engine's close has been called on it.
C10_ClosedOnEveryExit ==
    (pc = "done" /\ duckdb_con # 0) => duckdb_con \in Range(close_log)

\* C10 witness: orchestrator() raised the exception of a job under stop
\* after the warehouse connection had been opened.
C10_Witness ==
    /\ pc = "done"
    /\ duckdb_con # 0
    /\ exc.kind = "JobExecutionError"

\* C11: at the end of a run every connection handle held during it (the one
\* the orchestrator opened and every handle a transform runner opened in
\* its place) has been closed exactly once.
C11_ReleasedExactlyOnce ==
    pc = "done" => \A h \in 1..Len(con_closes) : con_closes[h] = 1

\* job B belongs to a stage declared before the stage of job C, which B
\* depends on (stages list without duplicates)
EarlierDependsOnLater(B, C) ==
    /\ C \in config.depends_on[B]
    /\ NoDuplicates(config.stages)
    /\ StagePos(config.stage[B]) # 0
    /\ StagePos(config.stage[B]) < StagePos(config.stage[C])

\* C12: when job B of an earlier declared stage depends on job C of a later
\* declared stage, B never becomes ready: it is never started, keeps status
\* pending and stays outside completed_jobs; the stall itself raises
\* nothing (whatever leaves orchestrator() is a connection failure, an
\* unknown dependency or the exception of another job), and in a run that ends without raising, C,
\* having a resolvable type and no dependencies of its own, was executed.
C12_EarlierStageNeverReady ==
    \A B, C \in Jobs :
        EarlierDependsOnLater(B, C) =>
            /\ status[B] = "pending"
            /\ B \notin completed_jobs
            /\ B \notin Range(ExecNames)
            /\ exc # NoExc =>
                   \/ exc.kind \in {"ConnectError", "UnknownDependency"}
                   \/ exc.job \in Jobs \ {B}
            /\ (/\ pc = "done"
                /\ exc = NoExc
                /\ config.depends_on[C] = {}
                /\ ResolveJobType(config.runner_type, config.stage[C])
                       # "unresolved")
               => /\ C \in Range(ExecNames)
                  /\ C \in completed_jobs

\* C12 witness: orchestrator() returned without raising under stop, C of
\* the second stage succeeded and B of the first stage, depending on C, is
\* still pending.
C12_Witness ==
    /\ pc = "done"
    /\ exc = NoExc
    /\ config.on_error = "stop"
    /\ \E B, C \in Jobs :
           /\ EarlierDependsOnLater(B, C)
           /\ status[C] = "success"
           /\ status[B] = "pending"
           /\ B \notin completed_jobs

\* C13: when two jobs A and B of one stage depend on each other, a call of
\* topological_sort_within_stage on that stage raises, whereas the
\* readiness loop raises nothing for them (whatever leaves orchestrator()
\* is a connection failure or the exception of another job) and leaves
\* both never started, pending and outside completed_jobs.
C13_CycleRaisesOnlyInSort ==
    \A A, B \in Jobs :
        MutualDependency(config, A, B) =>
            /\ (sort_call # NoCall /\ sort_call.stage = config.stage[A])
                   => sort_call.raised
            /\ status[A] = "pending"
            /\ status[B] = "pending"
            /\ {A, B} \cap completed_jobs = {}
            /\ {A, B} \cap Range(ExecNames) = {}
            /\ exc # NoExc =>
                   \/ exc.kind = "ConnectError"
                   \/ exc.job \in Jobs \ {A, B}

\* C13 witness: orchestrator() returned without raising, the third job
\* succeeded, the two jobs depending on each other belong to a declared
\* stage and are pending, and the sort of their stage raised.
C13_Witness ==
    /\ pc = "done"
    /\ exc = NoExc
    /\ sort_call.raised
    /\ \E A, B, C \in Jobs :
           /\ MutualDependency(config, A, B)
           /\ sort_call.stage = config.stage[A]
           /\ config.stage[A] \in Range(config.stages)
           /\ status[A] = "pending"
           /\ status[B] = "pending"
           /\ status[C] = "success"


\* jobs of the stage that job j reaches along depends_on entries naming
\* jobs of the same stage, in at most n steps from the set S
RECURSIVE SameStageClosure(_, _, _)
SameStageClosure(S, stage, n) ==
    IF n = 0 THEN S
    ELSE SameStageClosure(
             S \cup UNION {{d \in config.depends_on[j] \cap Jobs :
                               config.stage[d] = stage} : j \in S},
             stage, n - 1)

\* jobs of the stage named by depends_on of j
SameStageDeps(j, stage) ==
    {d \in config.depends_on[j] \cap Jobs : config.stage[d] = stage}

\* the depends_on edges between jobs of the stage contain a cycle
SameStageCycle(stage) ==
    \E j \in Jobs :
        /\ config.stage[j] = stage
        /\ j \in SameStageClosure(SameStageDeps(j, stage), stage,
                                   Len(config.jobs))

\* C14: a call topological_sort_within_stage(stage) raises exactly when the
\* depends_on edges between jobs of that stage contain a cycle; otherwise
\* it returns a list holding every job of the stage exactly once in which
\* each job comes after all of its dependencies of the same stage.
C14_SortWithinStage ==
    sort_call # NoCall =>
        LET stage == sort_call.stage
            result == sort_call.result
        IN /\ sort_call.raised <=> SameStageCycle(stage)
           /\ ~sort_call.raised =>
                  /\ Range(result) = {j \in Jobs : config.stage[j] = stage}
                  /\ NoDuplicates(result)
                  /\ \A i \in 1..Len(result) :
                         \A dep \in SameStageDeps(result[i], stage) :
                             \E k \in 1..(i - 1) : result[k] = dep

\* C14 witness: a call that returned the two jobs of the stage with the
\* job declared first placed last, the other one depending on a job of
\* another stage as well.
C14_Witness ==
    /\ sort_call # NoCall
    /\ ~sort_call.raised
    /\ Len(sort_call.result) = 2
    /\ sort_call.result[2] = config.jobs[1]
    /\ \E dep \in config.depends_on[sort_call.result[1]] :
           config.stage[dep] # sort_call.stage

\* C15: a ready job whose type cannot be resolved aborts the run under every
\* on_error policy: the step that routes it ends with its ValueError
\* propagating out of the stage loop.
C15_UnresolvedTypeFatal ==
    [][(pc = "dispatch" /\ CurrentType = "unresolved") =>
          (/\ pc' = "finally"
           /\ exc' = [kind |-> "ValueError", job |-> CurrentJob])]_vars

\* the reader of job j yields no table, or only tables that a processor
\* drops by SkipTable
NoData(j) ==
    \A i \in 1..Len(source[j]) :
        \E k \in 1..Len(config.processors) :
            /\ source[j][i].outcomes[k] = "skip"
            /\ \A m \in 1..(k - 1) : source[j][i].outcomes[m] = "ok"

\* the step in which execute_extract_job returns for a job without data
\* gives it status success, leaves the table cache as it was and puts the
\* job's name into completed_jobs
NoDataStep ==
    (/\ pc = "exec"
     /\ CurrentType = "extract"
     /\ NoData(CurrentJob)
     /\ job_error'[CurrentJob] = "none")
    => /\ status'[CurrentJob] = "success"
       /\ in_memory_tables' = in_memory_tables
       /\ CurrentJob \in completed_jobs'

\* C16 as stated: an extract job whose reader yields no table, or whose
\* tables are all dropped by processors, ends with status success, leaves
\* the table cache unchanged and enters completed_jobs, and at the end of a
\* run that no other job aborted every job depending on it has been
\* started (over configurations whose jobs all name a declared stage).
C16_NoDataRunsAllDependents ==
    /\ [][NoDataStep]_vars
    /\ []((pc = "done" /\ StagesDeclared) =>
            \A j, k \in Jobs :
                (/\ NoData(j)
                 /\ status[j] = "success"
                 /\ j \in config.depends_on[k]
                 /\ exc.job \in {"", k})
                => k \in Range(ExecNames))

\* C16 amended: as above, for the dependents whose dependencies all
\* entered completed_jobs no later than the last readiness loop of the
\* dependent's own stage.
C16_NoDataIsSuccess ==
    /\ [][NoDataStep]_vars
    /\ [](pc = "done" =>
            \A j, k \in Jobs :
                (/\ NoData(j)
                 /\ status[j] = "success"
                 /\ j \in config.depends_on[k]
                 /\ exc.job \in {"", k}
                 /\ \A dep \in config.depends_on[k] :
                        /\ CompletedAt(dep) # 0
                        /\ CompletedAt(dep) <= LastIdx(config.stage[k]))
                => k \in Range(ExecNames))

\* C16 witness: a finished run in which the two tables of job a were both
\* dropped by processors, a ended with status success, and job b, which
\* depends on a, then stored its table under the output name a declares
\* too.
C16_Witness ==
    /\ pc = "done"
    /\ Len(source["a"]) = 2
    /\ NoData("a")
    /\ status["a"] = "success"
    /\ "a" \in config.depends_on["b"]
    /\ config.output["a"] = "T1"
    /\ status["b"] = "success"
    /\ Len(source["b"]) = 1
    /\ in_memory_tables["T1"] = source["b"][1]

\* the two placeholder forms of a name
BracesOf(name) == <<"{">> \o name \o <<"}">>
DollarOf(name) == <<"$", "{">> \o name \o <<"}">>

\* C17: for a string that is one placeholder, of the form {NAME} or
\* ${NAME}, _expand returns the value of NAME when NAME is a key of the
\* environment and the placeholder text unchanged when it is not.
C17_KnownReplacedUnknownKept ==
    expand_call.called =>
        \A name \in EnvKeys :
            expand_call.obj \in {BracesOf(name), DollarOf(name)} =>
                expand_call.result =
                    IF name \in DOMAIN expand_call.env
                    THEN expand_call.env[name]
                    ELSE expand_call.obj

\* the variables section has been resolved into env
VariablesResolved == resolve_step > Len(raw_config.variables)

\* C18: once the variables section is resolved, a variable declared as a
\* reference ({NAME} or ${NAME}) to an earlier declared variable holds that
\* variable's resolved value, and a variable declared as a reference to a
\* later declared variable, which the process environment does not
\* define, did not receive the later variable's value.
C18_DeclarationOrder ==
    VariablesResolved =>
        \A i, k \in 1..Len(raw_config.variables) :
            LET earlier == raw_config.variables[i]
                later == raw_config.variables[k]
            IN i < k =>
                  /\ later[2] \in {BracesOf(earlier[1]), DollarOf(earlier[1])}
                         => env[later[1]] = env[earlier[1]]
                  /\ (/\ earlier[2] \in {BracesOf(later[1]),
                                          DollarOf(later[1])}
                      /\ later[1] \notin DOMAIN os_environ
                      /\ env[later[1]] # <<>>)
                         => env[earlier[1]] # env[later[1]]

C20_SkipActsAsStop ==
    /\ [](config.on_error = "skip" =>
            \A j \in Jobs :
                job_error[j] = "error" =>
                    /\ pc \in {"finally", "done"}
                    /\ exc = [kind |-> "JobExecutionError", job |-> j]
                    /\ j \notin completed_jobs)
    /\ [][/\ config.on_error = "skip" => NextUnder("stop")
          /\ config.on_error = "stop" => NextUnder("skip")]_vars

\* C20 witness: a run under skip that ended by raising the exception of a
\* job after another job had succeeded, a third job being left pending.
C20_Witness ==
    /\ pc = "done"
    /\ config.on_error = "skip"
    /\ exc.kind = "JobExecutionError"
    /\ \E j, k \in Jobs :
           /\ status[j] = "success"
           /\ status[k] = "pending"
           /\ status[exc.job] = "failed"

\* the jobs whose executor method is running
Running == {j \in Jobs : status[j] = "running"}

\* C21: at every moment at most one job has status running, and the jobs of
\* a ready batch are executed one at a time in the order of the list: while
\* the for-loop is at position i of ready_jobs, every job before i has
\* finished (success or failed), every job after i is still pending, and
\* the job at i is the only one that can be running.
C21_OneAtATimeInListOrder ==
    /\ Cardinality(Running) <= 1
    /\ pc \in {"dispatch", "exec"} =>
           /\ ready_idx \in 1..Len(ready_jobs)
           /\ \A k \in 1..Len(ready_jobs) :
                  /\ k < ready_idx =>
                         status[ready_jobs[k]] \in {"success", "failed"}
                  /\ k > ready_idx => status[ready_jobs[k]] = "pending"
           /\ status[CurrentJob] =
                  (IF pc = "exec" THEN "running" ELSE "pending")
           /\ Running \subseteq {CurrentJob}
    /\ pc \notin {"dispatch", "exec"} => Running = {}

\* C21 witness: a batch of three ready jobs, the second one running after
\* the first one has failed.
C21_Witness ==
    /\ pc = "exec"
    /\ Len(ready_jobs) = 3
    /\ ready_idx = 2
    /\ status[ready_jobs[1]] = "failed"
    /\ status[ready_jobs[2]] = "running"
    /\ status[ready_jobs[3]] = "pending"

\* C22: when a job fails under the stop policy the run halts, the failure
\* reaches the caller of orchestrator(), and the summary of the run is
\* still reported, the jobs that never ran being counted as pending.
C22_StopFailureSummary ==
    (/\ pc = "done"
     /\ OnError(config) = "stop"
     /\ exc.kind = "JobExecutionError") =>
        /\ status[exc.job] = "failed"
        /\ summary.reported
        /\ summary.skipped = Count("pending")

\* C23: when reporting is enabled and the report generation raises, the
\* exception is caught: orchestrator() returns normally, the step changes
\* no job status, no job error and no entry of completed_jobs, nothing
\* changes them afterwards, and the finally block still closes the
\* connection orchestrator() opened.
C23_ReportFailureNotFatal ==
    /\ [](report = "failed" =>
            /\ config.reporting
            /\ exc = NoExc
            /\ summary.reported
            /\ pc \in {"finally", "done"}
            /\ (pc = "done" /\ config.warehouse) =>
                   /\ close_log = <<duckdb_con>>
                   /\ con_closes[duckdb_con] = 1)
    /\ [][(report' = "failed") =>
              /\ status' = status
              /\ job_error' = job_error
              /\ completed_jobs' = completed_jobs]_vars

\* C23 witness: a run with a warehouse database returned after the report
\* generation had raised, one job having failed and one succeeded.
C23_Witness ==
    /\ pc = "done"
    /\ report = "failed"
    /\ config.warehouse
    /\ close_log = <<duckdb_con>>
    /\ exc = NoExc
    /\ \E j, k \in Jobs : status[j] = "failed" /\ status[k] = "success"

\* C24: every Job of the job set orchestrator() builds and runs names a
\* stage of the declared stage list: once the Job objects and the JobDAG
\* are built and the stage loop runs, no job names an undeclared stage.
C24_JobStagesDeclared ==
    pc \in {"stage", "dispatch", "exec", "summary"} =>
        \A j \in Jobs : config.stage[j] \in Range(config.stages)

\* C25: in each of the four job pipelines an exception raised during the
\* execution sets the status of the job to failed, stores the message in
\* job.error, records end time and duration and is re-raised: under a
\* policy that raises it leaves orchestrator() as the exception of that
\* job, under continue it is the except clause of the driver that adds the
\* job to completed_jobs.
C25_ExecutorReraises ==
    [][(pc = "exec" /\ status'[CurrentJob] # "success") =>
          /\ method[CurrentJob] \in {"extract", "stage", "transform", "load"}
          /\ status'[CurrentJob] = "failed"
          /\ job_error'[CurrentJob] = "error"
          /\ end_time'[CurrentJob]
          /\ IF OnError(config) = "continue"
             THEN /\ exc' = NoExc
                  /\ CurrentJob \in completed_jobs'
             ELSE /\ exc' = [kind |-> "JobExecutionError", job |-> CurrentJob]
                  /\ pc' = "finally"
                  /\ CurrentJob \notin completed_jobs']_vars

\* C25 witness: a run under continue in which a stage job and a load job
\* have failed with their error recorded.
C25_Witness ==
    /\ pc = "done"
    /\ \E j, k \in Jobs :
           /\ method[j] = "stage"
           /\ method[k] = "load"
           /\ status[j] = "failed" /\ job_error[j] = "error" /\ end_time[j]
           /\ status[k] = "failed" /\ job_error[k] = "error" /\ end_time[k]

\* the four values of the type field of a runner
FourTypes == {"reader", "stager", "transformer", "writer"}

\* the pipeline each runner type names
TypeMethod(runner_type) ==
    CASE runner_type = "reader" -> "extract"
      [] runner_type = "stager" -> "stage"
      [] runner_type = "transformer" -> "transform"
      [] runner_type = "writer" -> "load"

\* the pipelines whose substring occurs in the lower-cased stage name
NameMatches(stage) ==
    LET name == Lower(Chars[stage]) IN
    {m \in {"extract", "stage", "transform", "load"} :
        \/ m = "extract" /\ Contains(name, W_extract)
        \/ m = "stage" /\ Contains(name, W_stag)
        \/ m = "transform" /\ Contains(name, W_transform)
        \/ m = "load" /\ (Contains(name, W_load) \/ Contains(name, W_export))}

\* job j was routed by the name of its stage: to a pipeline whose substring
\* occurs in it, and when none does its execution failed
RoutedByName(j) ==
    IF NameMatches(config.stage[j]) = {}
    THEN /\ method[j] = "unresolved"
         /\ j \notin Range(ExecNames)
         /\ \/ exc = [kind |-> "ValueError", job |-> j]
            \/ status[j] = "failed"
    ELSE method[j] \in NameMatches(config.stage[j])

\* C29: a job whose runner has the type reader, stager, transformer or
\* writer is run by the extract, stage, transform or load pipeline whatever
\* its stage name is, and the stage name is consulted only when the type
\* is absent: a job whose runner has a type is never routed by its stage
\* name.  Without a type the job is routed by the substrings of its stage
\* name and fails when none occurs.
C29_StageNameOnlyWhenAbsent ==
    \A j \in Jobs :
        method[j] # "" =>
            IF config.runner_type # ""
            THEN /\ config.runner_type \in FourTypes
                 /\ method[j] = TypeMethod(config.runner_type)
            ELSE RoutedByName(j)

\* every dependency of every job is a job of the same stage or of a stage
\* declared earlier
DepsNotLater ==
    \A j \in Jobs :
        \A dep \in config.depends_on[j] :
            /\ dep \in Jobs
            /\ StagePos(config.stage[dep]) <= StagePos(config.stage[j])

\* C26: over an acyclic dependency graph whose jobs all name declared
\* stages and whose dependencies all belong to the same or an earlier
\* declared stage than their dependent, a run that went through the stage
\* loop under continue, or without any job failing, ends with no job
\* pending: every job is success or failed and is in completed_jobs.
C26_NoJobLeftPending ==
    (/\ pc \in {"summary", "finally", "done"}
     /\ exc.kind \notin {"ConnectError", "UnknownDependency"}
     /\ Acyclic
     /\ StagesDeclared
     /\ DepsNotLater
     /\ \/ OnError(config) = "continue"
        \/ \A j \in Jobs : status[j] # "failed" /\ exc = NoExc) =>
        \A j \in Jobs :
            /\ status[j] \in {"success", "failed"}
            /\ j \in completed_jobs

\* C26 witness: a finished run under continue over two stages and a chain
\* of two dependencies across them, in which the first job failed and
\* every job ended in completed_jobs.
C26_Witness ==
    /\ pc = "done"
    /\ OnError(config) = "continue"
    /\ Acyclic /\ StagesDeclared /\ DepsNotLater
    /\ \E j, k, l \in Jobs :
           /\ j \in config.depends_on[k]
           /\ k \in config.depends_on[l]
           /\ config.stage[j] # config.stage[l]
           /\ status[j] = "failed"
           /\ status[l] = "success"
    /\ completed_jobs = Jobs

\* the jobs whose status is pending
Pending == {j \in Jobs : status[j] = "pending"}

\* C27: for every job graph and stage list, cyclic, self-dependent and
\* cross-stage-stalled ones included, orchestrator() ends when every
\* executor method ends; every batch of the while-loop is non-empty and
\* holds pending jobs only, and when the for-loop over a batch comes back
\* to the head of the while-loop every job of the batch has left pending.
C27_LoopTerminates ==
    /\ <>(pc = "done")
    /\ [](pc = "dispatch" =>
            /\ Len(ready_jobs) >= 1
            /\ status[CurrentJob] = "pending")
    /\ [][(pc \in {"dispatch", "exec"} /\ pc' = "stage") =>
              /\ \A k \in 1..Len(ready_jobs) :
                     status'[ready_jobs[k]] # "pending"
              /\ Cardinality({j \in Jobs : status'[j] = "pending"})
                     <= Cardinality(Pending)]_vars
    /\ [][Cardinality({j \in Jobs : status'[j] = "pending"})
              <= Cardinality(Pending)]_vars

\* C27 witness: a run over two jobs that depend on each other ended, a
\* third job having been executed.
C27_Witness ==
    /\ pc = "done"
    /\ exc = NoExc
    /\ \E j, k \in Jobs :
           /\ j # k
           /\ j \in config.depends_on[k]
           /\ k \in config.depends_on[j]
           /\ status[j] = "pending"
           /\ status[k] = "pending"
    /\ \E l \in Jobs : status[l] = "success"

\* C28: at every point between two job dispatches every name in
\* completed_jobs is the name of a job whose status is success or failed,
\* so that no pending job is in completed_jobs; under continue every job
\* whose status is success or failed is in completed_jobs as well.
C28_CompletedMatchesStatus ==
    pc # "exec" =>
        /\ \A n \in completed_jobs :
               /\ n \in Jobs
               /\ status[n] \in {"success", "failed"}
        /\ \A j \in Jobs : status[j] = "pending" => j \notin completed_jobs
        /\ OnError(config) = "continue" =>
               \A j \in Jobs :
                   status[j] \in {"success", "failed"} => j \in completed_jobs

\* C28 witness: under continue the for-loop is about to dispatch a pending
\* job after one job has failed and one has succeeded.
C28_Witness ==
    /\ pc = "dispatch"
    /\ OnError(config) = "continue"
    /\ \E j, k \in completed_jobs :
           /\ status[j] = "failed"
           /\ status[k] = "success"
    /\ status[CurrentJob] = "pending"

\* every processor returned a frame for table t
Survives(t) == \A i \in 1..Len(config.processors) : t.outcomes[i] = "ok"

\* positions of the surviving tables among those the reader of j yields
Surviving(j) == {i \in 1..Len(source[j]) : Survives(source[j][i])}

\* the extract job at the for-loop returns with success, declares an
\* output table name, and at least one of its tables survives
StoreStep ==
    /\ pc = "exec"
    /\ method[CurrentJob] = "extract"
    /\ status'[CurrentJob] = "success"
    /\ config.output[CurrentJob] # ""
    /\ Surviving(CurrentJob) # {}

\* C30: when an extract job declares the output table name N and at least
\* one table survives the processors, the first surviving table in reader
\* order is stored in the table cache under N, whatever N held before;
\* every other entry of the cache is left as it was and no other surviving
\* table of the job is stored under any name.
C30_FirstSurvivingStored ==
    [][StoreStep =>
          LET N == config.output[CurrentJob]
              first == CHOOSE i \in Surviving(CurrentJob) :
                           \A k \in Surviving(CurrentJob) : i <= k
          IN /\ in_memory_tables'[N] = source[CurrentJob][first]
             /\ \A n \in CacheKeys \ {N} :
                    in_memory_tables'[n] = in_memory_tables[n]
             /\ \A n \in CacheKeys :
                    \A k \in Surviving(CurrentJob) \ {first} :
                        in_memory_tables'[n] # source[CurrentJob][k]]_vars

\* C30 witness: job b stored its table under T1, then job a, whose two
\* tables both survived, stored its first table under T1 and nothing under
\* T2.
C30_Witness ==
    /\ pc = "done"
    /\ CompletedNames = <<"b", "a">>
    /\ config.output["a"] = "T1"
    /\ config.output["b"] = "T1"
    /\ Surviving("b") = {1}
    /\ Surviving("a") = {1, 2}
    /\ status["a"] = "success"
    /\ status["b"] = "success"
    /\ in_memory_tables["T1"] = source["a"][1]
    /\ in_memory_tables["T2"] = NoTable

(***************************************************************************)
(* C37: expanding an expanded string                                       *)
(***************************************************************************)
\* C37: variable resolution is idempotent: applying _expand with the same
\* environment to the result of _expand returns that result unchanged.
C37_ExpandIdempotent ==
    expand_call.called =>
        ExpandStr(expand_call.result, expand_call.env) = expand_call.result

(***************************************************************************)
(* C38: the statuses orchestrator() leaves                                 *)
(***************************************************************************)
\* C38: whenever orchestrator() has finished, by returning or by raising,
\* no job has status running: every job is pending, success or failed,
\* and the success, failed and pending counts of a summary that was made
\* add up to the number of jobs.
C38_NoJobLeftRunning ==
    pc = "done" =>
        /\ Running = {}
        /\ \A j \in Jobs : status[j] \in {"pending", "success", "failed"}
        /\ summary.reported =>
               summary.success + summary.failed + summary.skipped =
                   Cardinality(Jobs)

\* orchestrator() has raised out of an executor method while another job
\* had succeeded and a third was never started
C38_Witness ==
    /\ pc = "done"
    /\ exc.kind = "JobExecutionError"
    /\ status[exc.job] = "failed"
    /\ \E j \in Jobs : status[j] = "success"
    /\ \E j \in Jobs : status[j] = "pending"

(***************************************************************************)
(* C31: the processors of an extract job                                   *)
(***************************************************************************)
\* the process() calls made on table t of job j, as processor positions
CallsOn(j, t) ==
    LET made == SelectSeq(proc_log, LAMBDA e : e[1] = j /\ e[2] = t)
    IN [k \in 1..Len(made) |-> made[k][3]]

\* whether s is strictly increasing
Increasing(s) == \A i, k \in 1..Len(s) : i < k => s[i] < s[k]

\* entry i of the processors list names a processor the registry lacks
UnknownAt(i) ==
    /\ config.processors[i] # ""
    /\ config.processors[i] \notin PROCESSORS

\* table tab comes to entry i of the processors list: every named entry
\* before it is registered and returned a frame
ComesTo(tab, i) ==
    \A k \in 1..(i - 1) :
        \/ config.processors[k] = ""
        \/ /\ config.processors[k] \in PROCESSORS
           /\ tab.outcomes[k] = "ok"

\* processing table tab raises: it comes to an unknown name or to a
\* processor that raises
Raises(tab) ==
    \E i \in 1..Len(config.processors) :
        /\ ComesTo(tab, i)
        /\ \/ UnknownAt(i)
           \/ /\ config.processors[i] \in PROCESSORS
              /\ tab.outcomes[i] = "error"

\* the extract job j has come to table t: no earlier table raised
TableReached(j, t) == \A u \in 1..(t - 1) : ~Raises(source[j][u])

\* what C31 says of the order of the calls, of SkipTable and of a processor
\* that raises, for the extract job j
ProcessorRules(j) ==
    /\ \A t \in 1..Len(source[j]) : Increasing(CallsOn(j, t))
    /\ \A i, k \in 1..Len(proc_log) :
           (i < k /\ proc_log[i][1] = j /\ proc_log[k][1] = j) =>
               proc_log[i][2] <= proc_log[k][2]
    /\ \A n \in 1..Len(proc_log) :
           LET t == proc_log[n][2]
               i == proc_log[n][3]
               tab == source[j][t]
           IN proc_log[n][1] = j =>
               /\ tab.outcomes[i] = "skip" =>
                      /\ \A k \in Range(CallsOn(j, t)) : k <= i
                      /\ \A c \in CacheKeys : in_memory_tables[c] # tab
                      /\ (\A u \in 1..Len(source[j]) :
                              ~Raises(source[j][u])) =>
                             status[j] = "success"
               /\ tab.outcomes[i] = "error" =>
                      /\ status[j] = "failed"
                      /\ n = Len(proc_log)

\* C31 as stated: each table an extract job reads is passed through the
\* processors in declared order; a SkipTable drops the table (no later
\* processor runs on it, it is never stored) without failing the job; any
\* other processor exception fails the job, and so does an unknown
\* processor name in the job's processors list.
C31_UnknownNameFails ==
    \A j \in Jobs :
        method[j] = "extract" =>
            /\ ProcessorRules(j)
            /\ (Executed(j) /\ \E i \in 1..Len(config.processors) :
                                   UnknownAt(i)) =>
                   status[j] = "failed"

\* C31 amended: as above, but an unknown processor name fails the job when
\* a table comes to it: the job has read a table that no SkipTable dropped
\* before that entry, and no earlier table raised.
C31_ReachedUnknownNameFails ==
    \A j \in Jobs :
        method[j] = "extract" =>
            /\ ProcessorRules(j)
            /\ (Executed(j) /\ \E t \in 1..Len(source[j]) :
                                   /\ TableReached(j, t)
                                   /\ \E i \in 1..Len(config.processors) :
                                          /\ UnknownAt(i)
                                          /\ ComesTo(source[j][t], i)) =>
                   status[j] = "failed"

\* C31 witness: the first table of a was dropped by the first processor
\* and never came to the unknown name after it; the second table passed the
\* first processor and came to the unknown name: a failed
C31_Witness ==
    /\ pc = "done"
    /\ config.processors = <<"p1", "bogus">>
    /\ Len(source["a"]) = 2
    /\ source["a"][1].outcomes[1] = "skip"
    /\ source["a"][2].outcomes[1] = "ok"
    /\ proc_log = <<<<"a", 1, 1>>, <<"a", 2, 1>>>>
    /\ status["a"] = "failed"
    /\ \A c \in CacheKeys : in_memory_tables[c] = NoTable

(***************************************************************************)
(* C32: a transform job handed to a runner                                 *)
(***************************************************************************)
\* the method called on job j in this step
Called(j) == status[j] = "pending" /\ status'[j] # "pending"

\* the statements logged in this step
NewStatements == SubSeq(sql_log', Len(sql_log) + 1, Len(sql_log'))

\* the register_tables calls logged in this step
NewRegistrations ==
    SubSeq(registered', Len(registered) + 1, Len(registered'))

\* C32: a transform job whose runner name is set and is not sql_transform
\* is handed to the runner: the executor executes no statement for it, and
\* when the runner has returned the handle of the executor is the one the
\* runner left in the context; every statement and registration of a later
\* job uses that handle.
C32_DelegatedToRunner ==
    [][\A j \in Jobs :
          /\ (Called(j) /\ method'[j] = "transform"
                /\ Delegated(config.runner[j])) =>
                 /\ NewStatements = <<>>
                 /\ status'[j] = "success" =>
                        /\ ctx'.called
                        /\ executor_con' = ctx'.duckdb
          /\ (Called(j) /\ ctx.called) =>
                 /\ \A e \in Range(NewStatements) : e[2] = ctx.duckdb
                 /\ \A r \in Range(NewRegistrations) : r.con = ctx.duckdb
                 /\ executor_con' = ctx.duckdb]_vars

\* C32 witness: the dbt runner of a returned with a new handle in the
\* context, and the inline SQL of b was then executed on that handle
C32_Witness ==
    /\ config.runner["a"] = "dbt_runner"
    /\ config.sql["a"] = "good"
    /\ status["a"] = "success"
    /\ ctx = [called |-> TRUE, duckdb |-> 2]
    /\ con_closes = <<1, 0>>
    /\ sql_log = <<<<"b", 2, "inline", 1>>>>
    /\ status["b"] = "success"

(***************************************************************************)
(* C33, C34: the SQL of a transform job                                    *)
(***************************************************************************)
\* the statements the executor has executed for job j, as <<source, n>>
StatementsOf(j) ==
    LET made == SelectSeq(sql_log, LAMBDA e : e[1] = j)
    IN [k \in 1..Len(made) |-> <<made[k][3], made[k][4]>>]

\* job j is a transform job of the default SQL runner that was called
\* while the executor held a connection
SqlJob(j) ==
    /\ method[j] = "transform"
    /\ ~Delegated(config.runner[j])
    /\ config.warehouse

\* job j runs a workflow file that is on disk and was loaded
WorkflowJob(j) ==
    /\ SqlJob(j)
    /\ EndsWithYaml(config.sql_file[j])
    /\ config.sql_file[j] \in DOMAIN files
    /\ files[config.sql_file[j]].valid

\* the steps of the workflow file of job j
StepsOf(j) == files[config.sql_file[j]].transformations

\* step i of job j fails: its SQL is empty or the database rejects it
StepFails(j, i) ==
    \/ Strip(StepsOf(j)[i]) = ""
    \/ ExecuteRaises(StepsOf(j)[i])

\* the failing steps of job j
FailingSteps(j) == {i \in 1..Len(StepsOf(j)) : StepFails(j, i)}

\* the first of them
FirstFailing(j) ==
    CHOOSE i \in FailingSteps(j) : \A k \in FailingSteps(j) : i <= k

\* C33: a workflow file runs its steps in file order and is fail-fast: at
\* the first step that fails, a step with empty SQL included, the error
\* propagates out of execute_transform_job, no later step is executed and
\* the job ends with status failed; without a failing step every step is
\* executed and the job succeeds.
C33_WorkflowFailFast ==
    /\ [](\A j \in Jobs :
             WorkflowJob(j) =>
                 LET ran == StatementsOf(j)
                 IN /\ \A k \in 1..Len(ran) : ran[k] = <<"workflow", k>>
                    /\ IF FailingSteps(j) = {}
                       THEN /\ Len(ran) = Len(StepsOf(j))
                            /\ status[j] = "success"
                       ELSE /\ status[j] = "failed"
                            /\ Len(ran) <= FirstFailing(j)
                            /\ Len(ran) >= FirstFailing(j) - 1
                            /\ Len(ran) = FirstFailing(j) <=>
                                   Strip(StepsOf(j)[FirstFailing(j)]) # "")
    /\ [][\A j \in Jobs :
             (Called(j) /\ WorkflowJob(j)' /\ FailingSteps(j) # {}) =>
                 exc' = [kind |-> "JobExecutionError", job |-> j]]_vars

\* C33 witness: the first of two steps was rejected by the database, the
\* second was never executed, and a failed
C33_Witness ==
    /\ WorkflowJob("a")
    /\ StepsOf("a") = <<"bad", "good">>
    /\ StatementsOf("a") = <<<<"workflow", 1>>>>
    /\ status["a"] = "failed"
    /\ job_error["a"] = "error"

\* the source the default SQL runner chooses for job j
Chosen(j) ==
    IF config.sql_file[j] # "" /\ EndsWithYaml(config.sql_file[j])
    THEN "workflow"
    ELSE IF config.sql_file[j] # "" THEN "file"
    ELSE IF config.sql[j] # "" THEN "inline"
    ELSE "none"

\* C34: for a transform job of the default SQL runner one SQL source is
\* executed, chosen by priority: a workflow sql_file, else a plain
\* sql_file, else the inline sql.  Every statement executed for the job
\* comes from the chosen source, a plain file or the inline SQL is executed
\* once, with a sql_file the inline SQL is never executed (a missing file
\* fails the job), and with neither the job fails.
C34_OneSourceByPriority ==
    \A j \in Jobs :
        SqlJob(j) =>
            /\ \A e \in Range(StatementsOf(j)) : e[1] = Chosen(j)
            /\ Chosen(j) \in {"file", "inline"} /\ status[j] = "success" =>
                   Len(StatementsOf(j)) = 1
            /\ config.sql_file[j] # "" =>
                   /\ \A e \in Range(StatementsOf(j)) : e[1] # "inline"
                   /\ config.sql_file[j] \notin DOMAIN files =>
                          /\ status[j] = "failed"
                          /\ StatementsOf(j) = <<>>
            /\ Chosen(j) = "none" =>
                   /\ status[j] = "failed"
                   /\ StatementsOf(j) = <<>>

\* C34 witness: a gives an inline SQL and a plain SQL file; the file was
\* executed, the inline SQL was not
C34_Witness ==
    /\ SqlJob("a")
    /\ config.sql["a"] = "good"
    /\ config.sql_file["a"] = "f.sql"
    /\ StatementsOf("a") = <<<<"file", 1>>>>
    /\ status["a"] = "success"

(***************************************************************************)
(* C35, C36, C39: stage jobs, and jobs without a connection                *)
(***************************************************************************)
\* the register_tables calls made for job j
RegistrationsOf(j) == SelectSeq(registered, LAMBDA r : r.job = j)

\* the declared inputs of job j that are in the cache, in declared order
PresentInputs(j) ==
    SelectSeq(config.input[j],
              LAMBDA T : in_memory_tables[T] # NoTable)

\* the step is a call of execute_stage_job on job j
StageCall(j) == Called(j) /\ method'[j] = "stage"

\* C35: for each declared input T of a stage job that is in the cache, the
\* staged table is named table_mapping[T] when T is a key of the mapping,
\* else table_prefix + T when a prefix is set, else T; the cache entry of T
\* is left as it was.
C35_StagedNamePrecedence ==
    [][\A j \in Jobs :
          StageCall(j) =>
              /\ in_memory_tables' = in_memory_tables
              /\ \A r \in Range(NewRegistrations) :
                     \A k \in 1..Len(r.tables) :
                         LET T == r.tables[k].input
                             mapping == config.table_mapping[j]
                             prefix == config.table_prefix[j]
                         IN /\ T \in DOMAIN mapping =>
                                r.tables[k].name = mapping[T]
                            /\ (T \notin DOMAIN mapping /\ prefix # <<>>) =>
                                r.tables[k].name = prefix \o <<T>>
                            /\ (T \notin DOMAIN mapping /\ prefix = <<>>) =>
                                r.tables[k].name = <<T>>
                            /\ r.tables[k].df = in_memory_tables[T]]_vars

\* C35 witness: with a mapping for T1 and a prefix, T1 was staged under the
\* mapped name and T2 under the prefixed name
C35_Witness ==
    /\ config.input["b"] = <<"T1", "T2">>
    /\ config.table_prefix["b"] = <<"stg_">>
    /\ "T1" \in DOMAIN config.table_mapping["b"]
    /\ Len(registered) = 1
    /\ registered[1].job = "b"
    /\ registered[1].tables[1].name = <<"M">>
    /\ registered[1].tables[2].name = <<"stg_", "T2">>
    /\ in_memory_tables["T1"] = Stored("T1")
    /\ in_memory_tables["T2"] = Stored("T2")

\* the inputs of the tables of one register_tables call, in call order
InputsOf(r) == [k \in 1..Len(r.tables) |-> r.tables[k].input]

\* what C36 says whether or not the executor holds a connection: an input
\* that is not in the cache is passed over, a registration is made of the
\* present inputs in declared order, and without a present input the job
\* succeeds and registers nothing
StageRules(j) ==
    /\ Len(RegistrationsOf(j)) <= 1
    /\ \A r \in Range(RegistrationsOf(j)) : InputsOf(r) = PresentInputs(j)
    /\ PresentInputs(j) = <<>> =>
           /\ status[j] = "success"
           /\ RegistrationsOf(j) = <<>>

\* C36 as stated: a stage job passes over every declared input that is not
\* in the cache and registers exactly the present ones; without a present
\* input it succeeds without calling register_tables.
C36_RegistersPresentInputs ==
    \A j \in Jobs :
        method[j] = "stage" =>
            /\ StageRules(j)
            /\ PresentInputs(j) # <<>> => Len(RegistrationsOf(j)) = 1

\* C36 amended: the present inputs are registered when the executor holds
\* a connection.
C36_RegistersPresentInputsWhenConnected ==
    \A j \in Jobs :
        method[j] = "stage" =>
            /\ StageRules(j)
            /\ (PresentInputs(j) # <<>> /\ config.warehouse) =>
                   Len(RegistrationsOf(j)) = 1

\* C36 witness: of the inputs T1 and T2 only T2 is in the cache; T2 alone
\* was registered and b succeeded
C36_Witness ==
    /\ config.input["b"] = <<"T1", "T2">>
    /\ in_memory_tables["T1"] = NoTable
    /\ in_memory_tables["T2"] # NoTable
    /\ method["b"] = "stage"
    /\ status["b"] = "success"
    /\ Len(registered) = 1
    /\ InputsOf(registered[1]) = <<"T2">>

\* C39: when no warehouse database is configured, a transform job and a
\* load job end with status failed and an error, and a stage job whose
\* inputs are in the cache ends with status success and registers nothing.
C39_WithoutConnection ==
    ~config.warehouse =>
        /\ executor_con = 0
        /\ \A j \in Jobs :
               /\ method[j] \in {"transform", "load"} =>
                      /\ status[j] = "failed"
                      /\ job_error[j] # "none"
               /\ method[j] = "stage" =>
                      /\ status[j] = "success"
                      /\ RegistrationsOf(j) = <<>>

\* C39 witness: without a connection the transform job a failed and the
\* stage job b, both of whose inputs are in the cache, succeeded
C39_Witness ==
    /\ ~config.warehouse
    /\ status["a"] = "failed"
    /\ job_error["a"] = "error"
    /\ method["b"] = "stage"
    /\ PresentInputs("b") = <<"T1", "T2">>
    /\ status["b"] = "success"
    /\ end_time["b"]
    /\ registered = <<>>

====
